---------------------------- MODULE Spec2Model ----------------------------
(***************************************************************************)
(* Model of the relevance-analysis pipeline of google_alerts_ai_filter:    *)
(* the cost ledger (claudeClient.ts), the batch analysis loop and the      *)
(* response parser (relevanceAnalyzer.ts, and the compiled revision in     *)
(* dist/analysis/relevanceAnalyzer.js), and the deduplicator that feeds    *)
(* them (utils/deduplicationUtils.ts).                                     *)
(*                                                                         *)
(* Texts are sequences of tokens, one token per piece of text the parser's *)
(* regular expressions tell apart.  Money is counted in units of           *)
(* $0.00000025, the price of one input token, so that calculateCost is     *)
(* exact integer arithmetic; floating-point rounding is not modelled.      *)
(***************************************************************************)
EXTENDS Integers, Sequences, FiniteSets, TLC

VARIABLES
    CONFIG,          \* the parsed configuration (fixed after start-up)
    now,             \* the wall clock: [year, month]
    costTracking,    \* the in-memory ledger (module-level let)
    ledgerFile,      \* claude_cost_tracking.json: NoFile or a ledger record
    pc,              \* position of the analysis run
    articles,        \* argument of analyzeContent
    uniqueArticles,  \* deduplicateScrapedArticles(articles)
    batchIndex,      \* loop variable of analyzeArticlesBatch (0-based)
    results,         \* results array of analyzeArticlesBatch
    sortedResults,   \* the returned array
    estimatedInputTokens, \* local of analyzeText that lives across the await
    history,         \* observation: the batches analyzeText was called for
    lastLoad,        \* observation: what the latest loadCostTracking did
    lastCheck,       \* observation: what the latest checkCostLimit saw and did
    env,             \* what the surroundings may still do in this run
    response,        \* parser harness: result text
    expectedArticleIds, \* parser harness: expected batch-local IDs
    articleResults,  \* parser harness: the Map returned
    contentFlag,     \* deduplicator: the useContentComparison argument
    dedupedAgain,    \* deduplicator: the result of a second pass over the result
    exportArticles,  \* exporter: the articles argument of exportAnalyzedArticles
    exportOptions,   \* exporter: the options argument
    rendered,        \* exporter: the rows written to the report, in file order
    scrapeInput,     \* scraper: the article argument of scrapeArticle
    scraperRetries,  \* scraper: CONFIG.scraper.retries
    requestLog,      \* scraper: the outcome of every fetch of this call, in order
    scrapeResult,    \* scraper: what scrapeArticle returned
    stage,           \* whole run: position of runEntirePipeline / runAnalysis
    revision,        \* whole run: runAnalysis of src/index.ts or of dist
    feedIndex,       \* whole run: the feed that is being fetched (1-based)
    retryCount,      \* whole run: argument of fetchRssFeed
    articleLinks,    \* whole run: the rows of the processed-feeds CSV
    scrapedArticles, \* whole run: local of runAnalysis
    rssRetries,      \* whole run: CONFIG.rss.retries
    feedLog,         \* observation: the attempts of fetchRssFeed and their waits
    calls,           \* concurrent analyzeText calls: position and locals of each
    requestQueue,    \* the PQueue of claudeClient.ts and its clock
    limiter          \* a limiter (createLimiter or pLimit), its tasks and clock

pipelineVars == <<CONFIG, now, costTracking, ledgerFile, pc, articles,
                  uniqueArticles, batchIndex, results, sortedResults,
                  estimatedInputTokens, history, lastLoad, lastCheck,
                  env>>
\* the state of the analysis that the other parts of the program leave alone
runVars == <<CONFIG, now, costTracking, ledgerFile, batchIndex, results,
             sortedResults, estimatedInputTokens, history, lastLoad, lastCheck,
             env>>
parserVars == <<response, expectedArticleIds, articleResults>>
dedupeVars == <<contentFlag, dedupedAgain>>
exportVars == <<exportArticles, exportOptions, rendered>>
scraperVars == <<scrapeInput, scraperRetries, requestLog, scrapeResult>>
stageVars == <<stage, revision, feedIndex, retryCount, articleLinks,
               scrapedArticles, rssRetries, feedLog>>
schedulerVars == <<calls, requestQueue, limiter>>
harnessVars == <<dedupeVars, exportVars, scraperVars, stageVars, schedulerVars>>
vars == <<pipelineVars, parserVars, harnessVars>>

Min(a, b) == IF a <= b THEN a ELSE b
Max(a, b) == IF a >= b THEN a ELSE b

(***************************************************************************)
(* Texts.  A token is [t, n, s]:                                           *)
(*   t = "ARTICLE_ID"       the marker "ARTICLE_ID:" followed by the       *)
(*                          digits s (s = "" when no digits follow)        *)
(*   t = "article_id"       the same marker in another letter case         *)
(*   t = "RELEVANCE_SCORE"  "RELEVANCE_SCORE:" followed by the digits of n *)
(*                          (n = NoDigits when something else follows:     *)
(*                          "-5", "high", nothing)                         *)
(*   t = "EXPLANATION"      "EXPLANATION:" followed by the text s          *)
(*   t = "TEXT"             any other text s                               *)
(***************************************************************************)
NoDigits == 0 - 1

IdTok(digits) == [t |-> "ARTICLE_ID", n |-> NoDigits, s |-> digits]
IdLowerTok(digits) == [t |-> "article_id", n |-> NoDigits, s |-> digits]
ScoreTok(n) == [t |-> "RELEVANCE_SCORE", n |-> n, s |-> ""]
ExplTok(s) == [t |-> "EXPLANATION", n |-> NoDigits, s |-> s]
TextTok(s) == [t |-> "TEXT", n |-> NoDigits, s |-> s]

\* /ARTICLE_ID:\s*(\d+)/ matches at this token
IsIdMatch(tok) == tok.t = "ARTICLE_ID" /\ tok.s # ""
\* the lookahead (?=ARTICLE_ID:|$) stops before this token
IsIdMarker(tok) == tok.t = "ARTICLE_ID"
\* the same, under the i flag
IsIdMarkerAnyCase(tok) == tok.t \in {"ARTICLE_ID", "article_id"}
\* /RELEVANCE_SCORE:\s*(\d+)/ matches at this token
IsScoreMatch(tok) == tok.t = "RELEVANCE_SCORE" /\ tok.n # NoDigits
IsExplanation(tok) == tok.t = "EXPLANATION"

\* whether the pattern matches at this token
Matches(tok, pattern) ==
    CASE pattern = "ARTICLE_ID:\\s*(\\d+)" -> IsIdMatch(tok)
      [] pattern = "(?=ARTICLE_ID:)" -> IsIdMarker(tok)
      [] pattern = "(?=ARTICLE_ID:)i" -> IsIdMarkerAnyCase(tok)
      [] pattern = "RELEVANCE_SCORE:\\s*(\\d+)" -> IsScoreMatch(tok)
      [] pattern = "EXPLANATION:" -> IsExplanation(tok)

\* index of the first element of seq at or after from that the pattern matches, or
\* Len(seq) + 1 when there is none
FirstFrom(seq, from, pattern) ==
    LET hits == {i \in from..Len(seq) : Matches(seq[i], pattern)}
    IN  IF hits = {} THEN Len(seq) + 1
        ELSE CHOOSE i \in hits : \A j \in hits : i <= j

NoExplanation == <<TextTok("No explanation provided")>>

\* a clamp that forgets the upper bound
ClampScoreNoUpperBound(score) == Max(score, 0)

\* Math.min(Math.max(score, 0), 100)
ClampScore(score) == Min(Max(score, 0), 100)

\* scoreMatch ? parseInt(scoreMatch[1], 10) : 0
ExtractScore(section) ==
    LET i == FirstFrom(section, 1, "RELEVANCE_SCORE:\\s*(\\d+)")
    IN  IF i <= Len(section) THEN section[i].n ELSE 0

\* /EXPLANATION:\s*([\s\S]+?)(?=ARTICLE_ID:|$)/ : from the first EXPLANATION
\* to the next ARTICLE_ID: marker of the section, or to its end
ExtractExplanation(section) ==
    LET i == FirstFrom(section, 1, "EXPLANATION:")
        j == FirstFrom(section, i + 1, "(?=ARTICLE_ID:)")
    IN  IF i <= Len(section) THEN SubSeq(section, i, j - 1) ELSE NoExplanation

SectionResult(section) ==
    [score |-> ClampScore(ExtractScore(section)),
     explanation |-> ExtractExplanation(section)]

\* positions of the matches of the split pattern, in text order
IdPositions(text) == {i \in 1..Len(text) : IsIdMatch(text[i])}

\* articleSections[i + 1] for the marker at position p: up to the next match
SectionAfter(text, p) ==
    SubSeq(text, p + 1, FirstFrom(text, p + 1, "ARTICLE_ID:\\s*(\\d+)") - 1)

\* the loop of the primary parse: articleResults.set per marker, in text
\* order, so that the last block of an ID wins
PrimaryParse(text) ==
    LET ids == {text[p].s : p \in IdPositions(text)}
        last(id) == CHOOSE p \in IdPositions(text) :
                        /\ text[p].s = id
                        /\ \A q \in IdPositions(text) : text[q].s = id => q <= p
    IN  [id \in ids |-> SectionResult(SectionAfter(text, last(id)))]

\* null, as a text of one reserved token; the empty string is <<>>
NoResult == <<[t |-> "null", n |-> NoDigits, s |-> ""]>>
EmptyMap == [id \in {} |-> SectionResult(<<>>)]

\* relevanceAnalyzer.ts: parseBatchAnalysisResult(result)
parseBatchAnalysisResult(result) ==
    IF result = NoResult \/ result = <<>> THEN EmptyMap ELSE PrimaryParse(result)

(***************************************************************************)
(* The compiled revision, dist/analysis/relevanceAnalyzer.js, whose parser *)
(* takes the expected IDs, falls back to a search per ID and fills in the  *)
(* IDs it did not find.                                                    *)
(***************************************************************************)
\* `${articleId}` after the marker: the pattern is not anchored after the
\* digits, so an ID also matches a longer number that starts with it
DigitsStartWith(digits, articleId) ==
    digits = articleId \/ <<digits, articleId>> \in {<<"12", "1">>}

\* new RegExp(`ARTICLE_ID:\\s*${articleId}[\\s\\S]*?(?=ARTICLE_ID:|$)`, 'i'):
\* the first marker, in any letter case, that carries the ID, and what
\* follows it up to the next marker in any letter case
FallbackSection(text, articleId) ==
    LET hits == {i \in 1..Len(text) : /\ IsIdMarkerAnyCase(text[i])
                                      /\ DigitsStartWith(text[i].s, articleId)}
        p == CHOOSE i \in hits : \A j \in hits : i <= j
    IN  SubSeq(text, p + 1, FirstFrom(text, p + 1, "(?=ARTICLE_ID:)i") - 1)

FallbackFound(text, articleId) ==
    \E i \in 1..Len(text) : /\ IsIdMarkerAnyCase(text[i])
                             /\ DigitsStartWith(text[i].s, articleId)

FallbackParse(text, expected) ==
    LET found == {expected[k] : k \in {k \in 1..Len(expected) :
                                          FallbackFound(text, expected[k])}}
    IN  [id \in found |-> SectionResult(FallbackSection(text, id))]

CouldNotExtract ==
    [score |-> 0,
     explanation |-> <<TextTok("Could not extract result from Claude's response")>>]

\* dist lines 225-234: a default entry for every expected ID not in the map
FillMissing(map, expected) ==
    LET ids == DOMAIN map \cup {expected[k] : k \in 1..Len(expected)}
    IN  [id \in ids |-> IF id \in DOMAIN map THEN map[id] ELSE CouldNotExtract]

\* dist line 201: if (articleResults.size === 0)
UseFallback(primary) == DOMAIN primary = {}

\* dist: parseBatchAnalysisResult(result, expectedArticleIds)
parseBatchAnalysisResultDist(result, expected) ==
    IF result = NoResult \/ result = <<>> THEN EmptyMap
    ELSE LET primary == PrimaryParse(result)
             parsed == IF UseFallback(primary) THEN FallbackParse(result, expected)
                       ELSE primary
         IN  FillMissing(parsed, expected)

(***************************************************************************)
(* The deduplicator, utils/deduplicationUtils.ts.                          *)
(*                                                                         *)
(* A link is [valid, base, query, slash]: whether new URL() accepts it,    *)
(* scheme+host+path without a final slash, the names of the query          *)
(* parameters in order, and whether the path ends in a slash.  The empty   *)
(* link is NoLink.  A content is a sequence of words and whitespace runs   *)
(* (" " a single blank, "  " any longer run or a line break).  The words   *)
(* of the model differ in their first letter once lowercased, so a word    *)
(* cut by substring() is told by the word and the number of letters kept.  *)
(***************************************************************************)
NoLink == [valid |-> FALSE, base |-> "", query |-> <<>>, slash |-> FALSE]

paramsToRemove ==
    {"utm_source", "utm_medium", "utm_campaign", "utm_term", "utm_content",
     "fbclid", "gclid", "ocid", "msclkid", "ref", "source", "ref_src"}

RECURSIVE DeleteParams(_)
DeleteParams(query) ==
    IF query = <<>> THEN <<>>
    ELSE IF Head(query) \in paramsToRemove THEN DeleteParams(Tail(query))
    ELSE <<Head(query)>> \o DeleteParams(Tail(query))

\* normalizeUrl: the string ends in the path's slash only when no query is left
normalizeUrl(url) ==
    IF ~url.valid THEN url
    ELSE LET query == DeleteParams(url.query)
         IN  [valid |-> TRUE, base |-> url.base, query |-> query,
              slash |-> IF query = <<>> THEN FALSE ELSE url.slash]

Whitespace == {" ", "  "}
StopWords == {"the", "and", "or", "but", "a", "an", "in", "on", "at", "for",
              "to", "of", "with", "by"}

\* toLowerCase on the words of the model
LowerCase(word) ==
    CASE word = "Roads" -> "roads"
      [] word = "The" -> "the"
      [] OTHER -> word

\* the number of characters of a lowercased word or blank of the model
Chars(word) ==
    CASE word = " " -> 1
      [] word = "roads" -> 5
      [] word = "bridge" -> 6
      [] word = "funding" -> 7
      [] word = "loremipsum" -> 198
      [] OTHER -> 3

\* .toLowerCase().replace(/\s+/g, ' ').replace(/\b(the|and|...)\b/g, '')
RECURSIVE NormalizeWords(_)
NormalizeWords(content) ==
    IF content = <<>> THEN <<>>
    ELSE LET w == Head(content)
             rest == NormalizeWords(Tail(content))
         IN  IF w \in Whitespace THEN <<" ">> \o rest
             ELSE IF LowerCase(w) \in StopWords THEN rest
             ELSE <<LowerCase(w)>> \o rest

RECURSIVE TrimLeft(_)
TrimLeft(words) ==
    IF words # <<>> /\ Head(words) \in Whitespace THEN TrimLeft(Tail(words))
    ELSE words

RECURSIVE TrimRight(_)
TrimRight(words) ==
    IF words # <<>> /\ words[Len(words)] \in Whitespace
    THEN TrimRight(SubSeq(words, 1, Len(words) - 1))
    ELSE words

Trim(words) == TrimRight(TrimLeft(words))

HashLength == 200

\* substring(0, n): whole words while they fit, then the cut word
RECURSIVE Substring(_, _)
Substring(words, n) ==
    IF words = <<>> \/ n = 0 THEN <<>>
    ELSE IF Chars(Head(words)) <= n
         THEN <<[w |-> Head(words), kept |-> Chars(Head(words))]>>
              \o Substring(Tail(words), n - Chars(Head(words)))
         ELSE <<[w |-> Head(words), kept |-> n]>>

calculateContentHash(content) ==
    Substring(Trim(NormalizeWords(content)), HashLength)

\* !content || content.trim().length === 0
IsEmptyContent(content) == Trim(content) = <<>>

\* 'content' in article && typeof article.content === 'string'
HasContent(article) == "content" \in DOMAIN article

\* a loop that removes from the array it iterates over, so that the article
\* after a removed one is not examined
RECURSIVE DedupeLoopSkippingAfterRemoval(_, _, _, _)
DedupeLoopSkippingAfterRemoval(list, useContentComparison, seenUrls, seenContentHashes) ==
    IF list = <<>> THEN <<>>
    ELSE LET article == Head(list)
             rest == Tail(list)
             url == normalizeUrl(article.link)
             hash == calculateContentHash(article.content)
             compare == useContentComparison /\ HasContent(article)
                        /\ ~IsEmptyContent(article.content)
             skipped == IF rest = <<>> THEN <<>> ELSE <<Head(rest)>>
             after == IF rest = <<>> THEN <<>> ELSE Tail(rest)
         IN  IF article.link = NoLink
             THEN <<article>> \o DedupeLoopSkippingAfterRemoval(
                                     rest, useContentComparison, seenUrls,
                                     seenContentHashes)
             ELSE IF url \in seenUrls \/ (compare /\ hash \in seenContentHashes)
             THEN skipped \o DedupeLoopSkippingAfterRemoval(
                                 after, useContentComparison, seenUrls,
                                 seenContentHashes)
             ELSE <<article>> \o DedupeLoopSkippingAfterRemoval(
                                     rest, useContentComparison, seenUrls \cup {url},
                                     IF compare THEN seenContentHashes \cup {hash}
                                     ELSE seenContentHashes)

\* the loop of deduplicateArticles over the rest of the list
RECURSIVE DedupeLoop(_, _, _, _)
DedupeLoop(list, useContentComparison, seenUrls, seenContentHashes) ==
    IF list = <<>> THEN <<>>
    ELSE LET article == Head(list)
             rest == Tail(list)
             url == normalizeUrl(article.link)
             hash == calculateContentHash(article.content)
         IN  IF article.link = NoLink
             THEN <<article>> \o DedupeLoop(rest, useContentComparison,
                                            seenUrls, seenContentHashes)
             ELSE IF url \in seenUrls
             THEN DedupeLoop(rest, useContentComparison, seenUrls,
                             seenContentHashes)
             ELSE IF ~(useContentComparison /\ HasContent(article))
             THEN <<article>> \o DedupeLoop(rest, useContentComparison,
                                            seenUrls \cup {url}, seenContentHashes)
             ELSE IF IsEmptyContent(article.content)
             THEN <<article>> \o DedupeLoop(rest, useContentComparison,
                                            seenUrls \cup {url}, seenContentHashes)
             ELSE IF hash \in seenContentHashes
             THEN DedupeLoop(rest, useContentComparison, seenUrls,
                             seenContentHashes)
             ELSE <<article>> \o
                  DedupeLoop(rest, useContentComparison, seenUrls \cup {url},
                             seenContentHashes \cup {hash})

RECURSIVE Reverse(_)
Reverse(list) ==
    IF list = <<>> THEN <<>> ELSE Append(Reverse(Tail(list)), Head(list))

HasLink(article) == article.link # NoLink

\* a deduplicator in which the last occurrence wins
deduplicateArticlesKeepingLast(list, flag) ==
    Reverse(DedupeLoop(Reverse(list), flag, {}, {}))

\* a deduplicator that does not pass the flag on
deduplicateArticlesIgnoringContent(list, flag) ==
    DedupeLoop(list, FALSE, {}, {})

\* a deduplicator that drops the articles without a link
deduplicateArticlesDroppingNoLink(list, flag) ==
    DedupeLoop(SelectSeq(list, HasLink), flag, {}, {})

deduplicateArticles(list, flag) ==
    DedupeLoop(list, flag, {}, {})

deduplicateScrapedArticles(list) == deduplicateArticles(list, TRUE)

(***************************************************************************)
(* The cost ledger, analysis/claudeClient.ts.                              *)
(***************************************************************************)
UnitsPerDollar == 4000000
InputTokenCost == 1
OutputTokenCost == 5
MinEffectiveLimitDollars == 50
EstimateBufferFactor == 2
MaxTokensCap == 2000
maxSafeBatchSize == 2

\* calculateCost, in units of $0.00000025
calculateCost(inputTokens, outputTokens) ==
    inputTokens * InputTokenCost + outputTokens * OutputTokenCost

DefaultLedger(date) ==
    [totalCost |-> 0, inputTokens |-> 0, outputTokens |-> 0,
     lastUpdated |-> date, requestCount |-> 0]

NoFile == [exists |-> FALSE, data |-> DefaultLedger([year |-> 0, month |-> 0])]

\* saveCostTracking: a failed write is logged and swallowed
saveCostTracking(ledger, file, writeOk) ==
    IF writeOk THEN [exists |-> TRUE, data |-> ledger] ELSE file

\* lastUpdated.getMonth() !== currentDate.getMonth() ||
\* lastUpdated.getFullYear() !== currentDate.getFullYear()
NewMonth(lastUpdated, currentDate) ==
    lastUpdated.month # currentDate.month \/ lastUpdated.year # currentDate.year

\* loadCostTracking: the ledger and the file it leaves, and the branch taken
loadCostTracking(ledger, file, currentDate, readOk, writeOk) ==
    IF file.exists /\ readOk
    THEN IF NewMonth(file.data.lastUpdated, currentDate)
         THEN [ledger |-> ledger,
               file |-> saveCostTracking(ledger, file, writeOk),
               branch |-> "new month", saves |-> TRUE, wrote |-> writeOk]
         ELSE [ledger |-> file.data, file |-> file,
               branch |-> "loaded", saves |-> FALSE, wrote |-> FALSE]
    ELSE [ledger |-> ledger,
          file |-> saveCostTracking(ledger, file, writeOk),
          branch |-> IF file.exists THEN "unreadable" ELSE "no file",
          saves |-> TRUE, wrote |-> writeOk]

\* the assignments of updateCostTracking, before its save
AddUsage(ledger, inputTokens, outputTokens, currentDate) ==
    [totalCost |-> ledger.totalCost + calculateCost(inputTokens, outputTokens),
     inputTokens |-> ledger.inputTokens + inputTokens,
     outputTokens |-> ledger.outputTokens + outputTokens,
     lastUpdated |-> currentDate,
     requestCount |-> ledger.requestCount + 1]

\* Math.max(CONFIG.claude.monthlyCostLimit, 50)
effectiveCostLimit(monthlyCostLimit) ==
    Max(monthlyCostLimit, MinEffectiveLimitDollars * UnitsPerDollar)

\* the test of checkCostLimit on the reloaded ledger: TRUE to proceed
UnderCostLimit(ledger, monthlyCostLimit) ==
    ~(ledger.totalCost >= effectiveCostLimit(monthlyCostLimit))

\* analyzeText line 160: the estimate against twice the limit
EstimateExceeds(ledger, estimatedCost, monthlyCostLimit) ==
    ledger.totalCost + estimatedCost > monthlyCostLimit * EstimateBufferFactor

\* Math.ceil(a / b) for positive b
CeilDiv(a, b) == (a + b - 1) \div b

CostLimitText ==
    <<ScoreTok(0), ExplTok("Analysis skipped due to cost limits.")>>
CostConstraintText ==
    <<ScoreTok(0), ExplTok("Analysis skipped due to cost constraints.")>>
NoContentText ==
    <<ScoreTok(0), ExplTok("No analysis could be generated.")>>
ErrorText(message) ==
    <<ScoreTok(0), ExplTok("Error during analysis: "), TextTok(message)>>

(***************************************************************************)
(* The analysis loop, analysis/relevanceAnalyzer.ts.                       *)
(***************************************************************************)
FailedToGetResult ==
    <<TextTok("Error: Failed to get analysis result for this article in batch.")>>

\* Math.min(batchSize, maxSafeBatchSize)
actualBatchSize(batchSize) == Min(batchSize, maxSafeBatchSize)

NumBatches(list, size) == CeilDiv(Len(list), size)

\* batches[i] = articles.slice(i * size, i * size + size)
Batch(list, i, size) == SubSeq(list, i * size + 1, Min((i + 1) * size, Len(list)))

\* a mapping that leaves out the articles the response has no block for
RECURSIVE MapResultsDroppingMissing(_, _, _)
MapResultsDroppingMissing(batch, offset, map) ==
    IF batch = <<>> THEN <<>>
    ELSE LET rest == MapResultsDroppingMissing(Tail(batch), offset + 1, map)
             id == ToString(offset + 1)
         IN  IF id \in DOMAIN map
             THEN <<[article |-> Head(batch), pos |-> offset + 1,
                     relevanceScore |-> map[id].score,
                     relevanceExplanation |-> map[id].explanation]>> \o rest
             ELSE rest

\* mutant: a mapping that reads the IDs from the end of the batch
MapResultsFromEnd(batch, offset, map) ==
    [k \in 1..Len(batch) |->
        LET id == ToString(Len(batch) + 1 - k)
        IN  IF id \in DOMAIN map
            THEN [article |-> batch[k], pos |-> offset + k,
                  relevanceScore |-> map[id].score,
                  relevanceExplanation |-> map[id].explanation]
            ELSE [article |-> batch[k], pos |-> offset + k,
                  relevanceScore |-> 0,
                  relevanceExplanation |-> FailedToGetResult]]

\* lines 154-174: one record per article of the batch; the article at index
\* k - 1 of the batch has the ID `${k}`.  pos is the article's position in the
\* list given to analyzeArticlesBatch (an observation, not a field)
MapResults(batch, offset, map) ==
    [k \in 1..Len(batch) |->
        LET id == ToString(k)
        IN  IF id \in DOMAIN map
            THEN [article |-> batch[k], pos |-> offset + k,
                  relevanceScore |-> map[id].score,
                  relevanceExplanation |-> map[id].explanation]
            ELSE [article |-> batch[k], pos |-> offset + k,
                  relevanceScore |-> 0,
                  relevanceExplanation |-> FailedToGetResult]]

\* a sort that puts an element before the elements of equal score
RECURSIVE InsertBeforeEqual(_, _)
InsertBeforeEqual(sorted, x) ==
    IF sorted = <<>> THEN <<x>>
    ELSE IF Head(sorted).relevanceScore > x.relevanceScore
         THEN <<Head(sorted)>> \o InsertBeforeEqual(Tail(sorted), x)
         ELSE <<x>> \o sorted

\* insertion into a list sorted by (b, a) => b.relevanceScore - a.relevanceScore,
\* after the elements that do not compare greater: Array.prototype.sort is stable
RECURSIVE InsertSorted(_, _)
InsertSorted(sorted, x) ==
    IF sorted = <<>> THEN <<x>>
    ELSE IF Head(sorted).relevanceScore >= x.relevanceScore
         THEN <<Head(sorted)>> \o InsertSorted(Tail(sorted), x)
         ELSE <<x>> \o sorted

RECURSIVE SortByRelevance(_)
SortByRelevance(list) ==
    IF list = <<>> THEN <<>>
    ELSE InsertSorted(SortByRelevance(SubSeq(list, 1, Len(list) - 1)),
                      list[Len(list)])

\* a loop that steps over every other batch
NextBatchIndexSkipping(i) == i + 2

\* batchIndex++
NextBatchIndex(i) == i + 1

(***************************************************************************)
(* Bounds and inputs.                                                      *)
(***************************************************************************)
MaxArticles == 2
MaxResponseLen == 4
MaxTicks == 1
MaxFaults == 1

StartDate == [year |-> 2024, month |-> 11]

Link(base, query, slash) ==
    [valid |-> TRUE, base |-> base, query |-> query, slash |-> slash]

ArticleUniverse ==
    { [title |-> "a1", link |-> Link("https://a.com/x", <<"id">>, FALSE),
       content |-> <<"Roads", " ", "funding">>],
      \* the same page behind a tracking parameter
      [title |-> "a2", link |-> Link("https://a.com/x", <<"utm_source", "id">>, FALSE),
       content |-> <<"bridge">>],
      \* another page with the same text after normalisation
      [title |-> "a3", link |-> Link("https://b.org/y", <<>>, TRUE),
       content |-> <<"The", " ", "roads", "  ", "funding">>],
      \* an article that could not be scraped and has no link
      [title |-> "a4", link |-> NoLink, content |-> <<>>] }

RECURSIVE ListsUpTo(_, _)
ListsUpTo(S, n) ==
    IF n = 0 THEN {<<>>}
    ELSE LET shorter == ListsUpTo(S, n - 1)
         IN  shorter \cup {Append(l, x) : l \in shorter, x \in S}

ArticleLists == ListsUpTo(ArticleUniverse, MaxArticles)

\* what may follow a marker in a response: a score and an explanation, a
\* score out of range without explanation, a score that is no number
Bodies ==
    { <<ScoreTok(70), ExplTok("relevant")>>,
      <<ScoreTok(150)>>,
      <<ScoreTok(NoDigits), ExplTok("relevant")>> }

\* a block: a marker and what follows it
Blocks == {<<IdTok(d)>> \o b : d \in {"1", "2"}, b \in Bodies}

RECURSIVE Concatenations(_, _)
Concatenations(S, n) ==
    IF n = 0 THEN {<<>>}
    ELSE LET shorter == Concatenations(S, n - 1)
         IN  shorter \cup {l \o x : l \in shorter, x \in S}

\* content[0].text of a response: up to as many blocks as the largest batch
\* has articles, or text without a marker; <<>> is a response without content
ResponseTexts == Concatenations(Blocks, maxSafeBatchSize) \cup Bodies

NoUsage == [present |-> FALSE, input_tokens |-> 0, output_tokens |-> 0]
ReportedUsage == [present |-> TRUE, input_tokens |-> 15000, output_tokens |-> 5000]

ErrorMessages == {"Request timed out.", "529 overloaded"}

\* safeText.length + prompt.length
TextLengths == {4000}

FileLedger(totalCost, date) ==
    [exists |-> TRUE,
     data |-> [totalCost |-> totalCost, inputTokens |-> totalCost, outputTokens |-> 0,
               lastUpdated |-> date, requestCount |-> 1]]

\* $0.01
SmallLimit == UnitsPerDollar \div 100
\* $20, the default
DefaultLimit == 20 * UnitsPerDollar

NoLoad == [branch |-> "none", wrote |-> FALSE]
NoCheck == [totalCost |-> 0, lastUpdated |-> StartDate, date |-> StartDate,
            canProceed |-> TRUE, dispatched |-> FALSE, made |-> FALSE]

(***************************************************************************)
(* The run: module load, analyzeContent, and per batch one analyzeText.    *)
(***************************************************************************)
IdleAnalysis ==
    /\ now = StartDate
    /\ costTracking = DefaultLedger(StartDate)
    /\ uniqueArticles = <<>>
    /\ batchIndex = 0
    /\ results = <<>>
    /\ sortedResults = <<>>
    /\ estimatedInputTokens = 0
    /\ history = <<>>
    /\ lastLoad = NoLoad
    /\ lastCheck = NoCheck
    /\ articleResults = EmptyMap

\* a process that runs no analysis: one configuration, no ledger file
IdleLedger ==
    /\ CONFIG = [batchSize |-> 1, monthlyCostLimit |-> DefaultLimit,
                 maxTokensPerRequest |-> 4000]
    /\ ledgerFile = NoFile
    /\ env = [ticks |-> 0, faults |-> 0, texts |-> {}, usages |-> {}]

IdleParser ==
    /\ response = <<>>
    /\ expectedArticleIds = <<>>

IdleDedupe ==
    /\ contentFlag = TRUE
    /\ dedupedAgain = <<>>

NoOptions == [format |-> "none"]

IdleExport ==
    /\ exportArticles = <<>>
    /\ exportOptions = NoOptions
    /\ rendered = <<>>

NoArticle == [alertName |-> "", title |-> "", link |-> ""]
NotScraped == [returned |-> FALSE]

IdleScraper ==
    /\ scrapeInput = NoArticle
    /\ scraperRetries = 3
    /\ requestLog = <<>>
    /\ scrapeResult = NotScraped

IdleStage ==
    /\ stage = "idle"
    /\ revision = "src"
    /\ feedIndex = 1
    /\ retryCount = 0
    /\ articleLinks = <<>>
    /\ scrapedArticles = <<>>
    /\ rssRetries = 3
    /\ feedLog = <<>>

IdleScheduler(active) ==
    /\ IF active = "calls" THEN TRUE ELSE calls = <<>>
    /\ IF active = "queue" THEN TRUE ELSE requestQueue = [clock |-> 0]
    /\ IF active = "limiter" THEN TRUE ELSE limiter = [clock |-> 0]

\* every part of the program but the active one has not been called
IdleHarnesses(active) ==
    /\ IF active = "dedupe" THEN TRUE ELSE IdleDedupe
    /\ IF active = "export" THEN TRUE ELSE IdleExport
    /\ IF active = "scraper" THEN TRUE ELSE IdleScraper
    /\ IF active \in {"run", "feeds"} THEN TRUE ELSE IdleStage
    /\ IdleScheduler(active)

InitRun == IdleAnalysis /\ IdleHarnesses("analysis")

\* the analysis on its own: every article list and every response, with a
\* ledger file that works and a clock that stands still
InitAnalysis ==
    /\ InitRun
    /\ pc = "load"
    /\ response = <<>>
    /\ expectedArticleIds = <<>>
    /\ CONFIG \in [batchSize : {1, 3}, monthlyCostLimit : {SmallLimit},
                   maxTokensPerRequest : {4000}]
    /\ ledgerFile \in {NoFile,
                       FileLedger(65000, StartDate),
                       FileLedger(70000, StartDate),
                       FileLedger(50 * UnitsPerDollar, StartDate)}
    /\ articles \in ArticleLists
    /\ env = [ticks |-> 0, faults |-> 0, texts |-> ResponseTexts,
              usages |-> {NoUsage}]

\* every ledger file, limit, usage and failure to read or write, with one
\* article list and well-formed responses
Init ==
    /\ InitRun
    /\ pc = "load"
    /\ response = <<>>
    /\ expectedArticleIds = <<>>
    /\ CONFIG \in [batchSize : {1}, monthlyCostLimit : {SmallLimit, DefaultLimit},
                   maxTokensPerRequest : {4000}]
    /\ ledgerFile \in {NoFile,
                       FileLedger(70000, StartDate),
                       FileLedger(50 * UnitsPerDollar, StartDate),
                       FileLedger(50 * UnitsPerDollar, [year |-> 2024, month |-> 10]),
                       FileLedger(50 * UnitsPerDollar, [year |-> 2023, month |-> 11])}
    /\ articles \in {SubSeq(<<CHOOSE a \in ArticleUniverse : a.title = "a1",
                              CHOOSE a \in ArticleUniverse : a.title = "a4",
                              CHOOSE a \in ArticleUniverse : a.title = "a4">>,
                            1, MaxArticles)}
    /\ env = [ticks |-> MaxTicks, faults |-> MaxFaults,
              texts |-> {<<IdTok("1"), ScoreTok(70), ExplTok("relevant")>>},
              usages |-> {NoUsage, ReportedUsage}]

size == actualBatchSize(CONFIG.batchSize)
maxResponseTokens == Min(CONFIG.maxTokensPerRequest, MaxTokensCap)

\* the outcomes of a read or a write the surroundings still allow
Outcomes == IF env.faults > 0 THEN BOOLEAN ELSE {TRUE}
Faults(flags) == Cardinality({i \in 1..Len(flags) : ~flags[i]})

\* claudeClient.ts line 223: loadCostTracking() on module load
ModuleLoad ==
    /\ pc = "load"
    /\ \E readOk \in Outcomes, writeOk \in Outcomes :
         LET l == loadCostTracking(costTracking, ledgerFile, now, readOk, writeOk)
         IN  /\ l.saves \/ writeOk
             /\ Faults(<<readOk, writeOk>>) <= env.faults
             /\ costTracking' = l.ledger
             /\ ledgerFile' = l.file
             /\ lastLoad' = [branch |-> l.branch, wrote |-> l.wrote]
             /\ env' = [env EXCEPT !.faults = @ - Faults(<<readOk, writeOk>>)]
    /\ pc' = "ready"
    /\ UNCHANGED <<CONFIG, now, articles, uniqueArticles, batchIndex, results,
                   sortedResults, estimatedInputTokens, history, lastCheck,
                   parserVars, harnessVars>>

\* analyzeContent up to the first await of analyzeArticlesBatch
AnalyzeContent ==
    /\ pc = "ready"
    /\ uniqueArticles' = deduplicateScrapedArticles(articles)
    /\ pc' = IF deduplicateScrapedArticles(articles) = <<>> THEN "done" ELSE "check"
    /\ batchIndex' = 0
    /\ results' = <<>>
    /\ sortedResults' = <<>>
    /\ UNCHANGED <<CONFIG, now, costTracking, ledgerFile, articles,
                   estimatedInputTokens, history, lastLoad, lastCheck, env,
                   parserVars, harnessVars>>

\* what follows the return of analyzeText: parse, map, next batch or sort
CompleteBatch(result) ==
    LET batch == Batch(uniqueArticles, batchIndex, size)
        map == parseBatchAnalysisResult(result)
        all == results \o MapResults(batch, batchIndex * size, map)
        last == NextBatchIndex(batchIndex) >= NumBatches(uniqueArticles, size)
    IN  /\ results' = all
        /\ batchIndex' = NextBatchIndex(batchIndex)
        /\ pc' = IF last THEN "done" ELSE "check"
        /\ sortedResults' = IF last THEN SortByRelevance(all) ELSE sortedResults

\* the budget checks of analyzeText (lines 141-163) on the reloaded ledger
Budget(readOk, writeOk, chars) ==
    LET l == loadCostTracking(costTracking, ledgerFile, now, readOk, writeOk)
        estimate == CeilDiv(chars, 4)
        canProceed == UnderCostLimit(l.ledger, CONFIG.monthlyCostLimit)
    IN  [load |-> l,
         estimate |-> estimate,
         canProceed |-> canProceed,
         exceeds |-> EstimateExceeds(l.ledger,
                                     calculateCost(estimate, maxResponseTokens),
                                     CONFIG.monthlyCostLimit),
         faults |-> Faults(<<readOk, writeOk>>),
         possible |-> (l.saves \/ writeOk)
                      /\ Faults(<<readOk, writeOk>>) <= env.faults]

Checked(b, outcome) ==
    /\ b.possible
    /\ costTracking' = b.load.ledger
    /\ ledgerFile' = b.load.file
    /\ lastLoad' = [branch |-> b.load.branch, wrote |-> b.load.wrote]
    /\ lastCheck' = [totalCost |-> b.load.ledger.totalCost,
                     lastUpdated |-> b.load.ledger.lastUpdated,
                     date |-> now,
                     canProceed |-> b.canProceed,
                     dispatched |-> outcome = "in flight",
                     made |-> TRUE]
    /\ history' = Append(history, [batch |-> batchIndex, outcome |-> outcome,
                                   error |-> "", usage |-> NoUsage])
    /\ env' = [env EXCEPT !.faults = @ - b.faults]

\* analyzeText lines 141-145: checkCostLimit returned false
SkipForCostLimit ==
    /\ pc = "check"
    /\ \E readOk \in Outcomes, writeOk \in Outcomes, chars \in TextLengths :
         LET b == Budget(readOk, writeOk, chars)
         IN  /\ ~b.canProceed
             /\ Checked(b, "cost limit")
    /\ CompleteBatch(CostLimitText)
    /\ UNCHANGED <<CONFIG, now, articles, uniqueArticles, estimatedInputTokens,
                   parserVars, harnessVars>>

\* analyzeText lines 160-163: the estimate exceeds twice the limit
SkipForCostConstraint ==
    /\ pc = "check"
    /\ \E readOk \in Outcomes, writeOk \in Outcomes, chars \in TextLengths :
         LET b == Budget(readOk, writeOk, chars)
         IN  /\ b.canProceed
             /\ b.exceeds
             /\ Checked(b, "cost constraint")
    /\ CompleteBatch(CostConstraintText)
    /\ UNCHANGED <<CONFIG, now, articles, uniqueArticles, estimatedInputTokens,
                   parserVars, harnessVars>>

AfterDispatchWithoutAwait == "check"

\* await analyzeText(...) in the loop of analyzeArticlesBatch, and in it
\* await requestQueue.add(...): the run goes on when the request has settled
AfterDispatch == "inflight"

\* analyzeText lines 166-178: the request goes to the queue and is awaited
Dispatch ==
    /\ pc = "check"
    /\ \E readOk \in Outcomes, writeOk \in Outcomes, chars \in TextLengths :
         LET b == Budget(readOk, writeOk, chars)
         IN  /\ b.canProceed
             /\ ~b.exceeds
             /\ Checked(b, "in flight")
             /\ estimatedInputTokens' = b.estimate
    /\ pc' = AfterDispatch
    /\ UNCHANGED <<CONFIG, now, articles, uniqueArticles, batchIndex, results,
                   sortedResults, parserVars, harnessVars>>

SetOutcomeOnFirst(outcome, error, usage) ==
    history' = [history EXCEPT ![1].outcome = outcome,
                               ![1].error = error,
                               ![1].usage = usage]

SetOutcome(outcome, error, usage) ==
    history' = [history EXCEPT ![Len(history)].outcome = outcome,
                               ![Len(history)].error = error,
                               ![Len(history)].usage = usage]

\* analyzeText lines 180-207: a response arrived
Respond ==
    /\ pc = "inflight"
    /\ \E text \in env.texts, usage \in env.usages, writeOk \in Outcomes :
         LET inputTokenCount == IF usage.present THEN usage.input_tokens
                                ELSE estimatedInputTokens
             outputTokenCount == IF usage.present THEN usage.output_tokens
                                 ELSE CeilDiv(maxResponseTokens, 2)
             updated == AddUsage(costTracking, inputTokenCount, outputTokenCount, now)
         IN  /\ costTracking' = updated
             /\ ledgerFile' = saveCostTracking(updated, ledgerFile, writeOk)
             /\ env' = [env EXCEPT !.faults = @ - Faults(<<writeOk>>)]
             /\ CompleteBatch(IF text = <<>> THEN NoContentText ELSE text)
             /\ SetOutcome("responded", "", usage)
    /\ lastLoad' = NoLoad
    /\ UNCHANGED <<CONFIG, now, articles, uniqueArticles, estimatedInputTokens,
                   lastCheck, parserVars, harnessVars>>

\* analyzeText lines 208-211: the request threw
TransportFailure ==
    /\ pc = "inflight"
    /\ \E message \in ErrorMessages :
         /\ CompleteBatch(ErrorText(message))
         /\ SetOutcome("failed", message, NoUsage)
    /\ UNCHANGED <<CONFIG, now, costTracking, ledgerFile, articles, uniqueArticles,
                   estimatedInputTokens, lastLoad, lastCheck, env, parserVars, harnessVars>>

\* the calendar moves on to the next month
Tick ==
    /\ env.ticks > 0
    /\ env' = [env EXCEPT !.ticks = @ - 1]
    /\ now' = IF now.month = 11 THEN [year |-> now.year + 1, month |-> 0]
              ELSE [year |-> now.year, month |-> now.month + 1]
    /\ UNCHANGED <<CONFIG, costTracking, ledgerFile, pc, articles, uniqueArticles,
                   batchIndex, results, sortedResults, estimatedInputTokens,
                   history, lastLoad, lastCheck, parserVars, harnessVars>>

Run ==
    \/ ModuleLoad
    \/ AnalyzeContent
    \/ SkipForCostLimit
    \/ SkipForCostConstraint
    \/ Dispatch
    \/ Respond
    \/ TransportFailure

Next == Run \/ Tick

Spec == Init /\ [][Next]_vars

AnalysisSpec == InitAnalysis /\ [][Run]_vars

\* the event loop runs every continuation, and every request settles
FairAnalysisSpec == AnalysisSpec /\ WF_vars(Run)

(***************************************************************************)
(* The parser on its own: every text of up to MaxResponseLen tokens.       *)
(***************************************************************************)
Tokens ==
    { IdTok("1"), IdTok("2"), IdTok("3"), IdTok(""),
      IdLowerTok("1"), IdLowerTok("2"), IdLowerTok("12"),
      ScoreTok(70), ScoreTok(150), ScoreTok(NoDigits),
      ExplTok("relevant") }

Texts == ListsUpTo(Tokens, MaxResponseLen)

InitParser ==
    /\ InitRun
    /\ CONFIG = [batchSize |-> 1, monthlyCostLimit |-> DefaultLimit,
                 maxTokensPerRequest |-> 4000]
    /\ ledgerFile = NoFile
    /\ articles = <<>>
    /\ env = [ticks |-> 0, faults |-> 0, texts |-> {}, usages |-> {}]
    /\ pc = "parse"
    /\ response \in Texts \cup {NoResult}
    /\ expectedArticleIds \in {<<"1">>, <<"1", "2">>}

\* relevanceAnalyzer.ts line 151:
\* const articleResults = parseBatchAnalysisResult(result)
ParseResponse ==
    /\ pc = "parse"
    /\ articleResults' = parseBatchAnalysisResult(response)
    /\ pc' = "parsed"
    /\ UNCHANGED <<CONFIG, now, costTracking, ledgerFile, articles, uniqueArticles,
                   batchIndex, results, sortedResults, estimatedInputTokens,
                   history, lastLoad, lastCheck, env, response, expectedArticleIds,
                   harnessVars>>

\* dist: const articleResults = parseBatchAnalysisResult(result, expectedArticleIds)
ParseResponseDist ==
    /\ pc = "parse"
    /\ articleResults' = parseBatchAnalysisResultDist(response, expectedArticleIds)
    /\ pc' = "parsed dist"
    /\ UNCHANGED <<CONFIG, now, costTracking, ledgerFile, articles, uniqueArticles,
                   batchIndex, results, sortedResults, estimatedInputTokens,
                   history, lastLoad, lastCheck, env, response, expectedArticleIds,
                   harnessVars>>

\* the batch the expected IDs stand for
ParserBatch ==
    SubSeq(<<CHOOSE a \in ArticleUniverse : a.title = "a1",
             CHOOSE a \in ArticleUniverse : a.title = "a3">>,
           1, Len(expectedArticleIds))

\* relevanceAnalyzer.ts lines 153-174: the results are mapped back to the
\* articles of the batch
MapBack ==
    /\ pc = "parsed"
    /\ results' = MapResults(ParserBatch, 0, articleResults)
    /\ pc' = "mapped"
    /\ UNCHANGED <<CONFIG, now, costTracking, ledgerFile, articles, uniqueArticles,
                   batchIndex, sortedResults, estimatedInputTokens, history,
                   lastLoad, lastCheck, env, parserVars, harnessVars>>

ParserNext == ParseResponse \/ ParseResponseDist \/ MapBack

ParserSpec == InitParser /\ [][ParserNext]_vars

(***************************************************************************)
(* Properties.                                                             *)
(***************************************************************************)
Range(seq) == {seq[i] : i \in 1..Len(seq)}
Outcome(record) == history[((record.pos - 1) \div size) + 1]
ZeroCounters(ledger) ==
    /\ ledger.totalCost = 0
    /\ ledger.inputTokens = 0
    /\ ledger.outputTokens = 0
    /\ ledger.requestCount = 0

C2_ScoreInRange ==
    \A r \in Range(results) \cup Range(sortedResults) :
        r.relevanceScore \in 0..100

\* a score of 150 was clamped to 100, beside a zero score
C2_Witness ==
    /\ pc = "done"
    /\ \E r \in Range(sortedResults) : r.relevanceScore = 100
    /\ \E r \in Range(sortedResults) : r.relevanceScore = 0

\* C3: the returned list is sorted by descending relevanceScore, records of
\* equal score keep the order of their articles in the input, and nothing
\* is returned (sorted) before the last batch completed
C3_SortedStableAfterAllBatches ==
    /\ pc # "done" => sortedResults = <<>>
    /\ pc = "done" =>
           /\ Len(sortedResults) = Len(results)
           /\ \A i, j \in 1..Len(sortedResults) :
                  i < j =>
                      /\ sortedResults[i].relevanceScore >= sortedResults[j].relevanceScore
                      /\ sortedResults[i].relevanceScore = sortedResults[j].relevanceScore
                             => sortedResults[i].pos < sortedResults[j].pos

\* the sort moved a record
C3_Witness ==
    /\ pc = "done"
    /\ Len(sortedResults) = 2
    /\ sortedResults # results

\* C4: once the ledger's totalCost has reached the configured
\* monthlyCostLimit within the current month, analyzeText dispatches no
\* request
C4_NoDispatchOverLimit ==
    ( /\ lastCheck.made
      /\ lastCheck.totalCost >= CONFIG.monthlyCostLimit
      /\ ~NewMonth(lastCheck.lastUpdated, lastCheck.date) )
        => ~lastCheck.dispatched

\* C5: checkCostLimit returns false if and only if the reloaded ledger's
\* totalCost is at least the configured monthlyCostLimit
C5_CheckIsStrictThreshold ==
    lastCheck.made =>
        (~lastCheck.canProceed <=> lastCheck.totalCost >= CONFIG.monthlyCostLimit)

CostReasons ==
    { ExplTok("Analysis skipped due to cost limits."),
      ExplTok("Analysis skipped due to cost constraints.") }

\* C6: every article of a batch skipped by the budget check has score 0 and
\* an explanation that states the cost reason
C6_BudgetSkipExplained ==
    \A r \in Range(results) :
        Outcome(r).outcome \in {"cost limit", "cost constraint"} =>
            /\ r.relevanceScore = 0
            /\ Range(r.relevanceExplanation) \cap CostReasons # {}

\* C7: every article of a batch whose request failed in transport has score
\* 0 and an explanation that contains the error's message
C7_TransportErrorExplained ==
    \A r \in Range(results) :
        Outcome(r).outcome = "failed" =>
            /\ r.relevanceScore = 0
            /\ TextTok(Outcome(r).error) \in Range(r.relevanceExplanation)

\* each batch analysed so far was analysed once, in index order
AttemptedInOrder ==
    /\ Len(history) <= NumBatches(uniqueArticles, size)
    /\ \A i \in 1..Len(history) : history[i].batch = i - 1
    /\ pc = "done" => Len(history) = NumBatches(uniqueArticles, size)

\* C8: whatever fails, every batch is attempted exactly once, in index
\* order, and analyzeArticlesBatch eventually returns
C8_EveryBatchAttemptedAndReturns == []AttemptedInOrder /\ <>(pc = "done")

\* a failed first batch was followed by an answered second batch
C8_Witness ==
    /\ pc = "done"
    /\ Len(history) = 2
    /\ history[1].outcome = "failed"
    /\ history[2].outcome = "responded"

\* the expected IDs, and those whose block "ARTICLE_ID: k" the text holds
Expected == Range(expectedArticleIds)
Present(text) == {text[p].s : p \in IdPositions(text)}
Mentioned(text, id) ==
    \E i \in 1..Len(text) : IsIdMarkerAnyCase(text[i]) /\ DigitsStartWith(text[i].s, id)

\* the text without the blocks of an ID
RECURSIVE WithoutBlocks(_, _, _)
WithoutBlocks(text, id, dropping) ==
    IF text = <<>> THEN <<>>
    ELSE IF IsIdMatch(Head(text))
         THEN IF Head(text).s = id THEN WithoutBlocks(Tail(text), id, TRUE)
              ELSE <<Head(text)>> \o WithoutBlocks(Tail(text), id, FALSE)
         ELSE IF dropping THEN WithoutBlocks(Tail(text), id, TRUE)
              ELSE <<Head(text)>> \o WithoutBlocks(Tail(text), id, dropping)

\* the parser of the revision that ran
Parsed(text) ==
    IF pc = "parsed dist" THEN parseBatchAnalysisResultDist(text, expectedArticleIds)
    ELSE parseBatchAnalysisResult(text)

\* C9: for every response text, parseBatchAnalysisResult returns exactly one
\* result per expected ID; an expected ID whose block is absent has score 0
\* and the extraction-failure explanation; the results of the IDs present do
\* not depend on the blocks left out
C9_OneResultPerExpectedId ==
    pc \in {"parsed", "parsed dist"} =>
        /\ Expected \subseteq DOMAIN articleResults
        /\ \A id \in Expected :
               ~Mentioned(response, id) => articleResults[id] = CouldNotExtract
        /\ \A id \in Expected \cap Present(response) :
               \A other \in Present(response) \ {id} :
                   LET rest == Parsed(WithoutBlocks(response, other, FALSE))
                   IN  id \in DOMAIN rest /\ rest[id] = articleResults[id]

\* C10: after a loadCostTracking that found the persisted ledger of another
\* month, or none, and wrote the file, the counters of the in-memory ledger
\* and of the persisted ledger are all zero
C10_LoadResetsCounters ==
    (lastLoad.branch \in {"new month", "no file"} /\ lastLoad.wrote) =>
        /\ ZeroCounters(costTracking)
        /\ ledgerFile.exists
        /\ ZeroCounters(ledgerFile.data)

\* the step is within the calendar month in which the process started
SameMonth == now = StartDate /\ now' = StartDate

\* C11: within one calendar month, with every outcome of reading and writing
\* the ledger file, no operation on the ledger decreases the in-memory
\* totalCost
C11_TotalCostNeverDecreases ==
    [][SameMonth => costTracking'.totalCost >= costTracking.totalCost]_vars

\* the step completes the call of the latest batch with this outcome
Completes(outcome) ==
    /\ Len(history') > 0
    /\ history'[Len(history')].outcome = outcome
    /\ history' # history

\* C12: a request that returns a response adds one to requestCount and the
\* call's usage (reported, otherwise estimated) to the token totals, and
\* leaves the persisted ledger equal to the in-memory ledger; a call that is
\* skipped for budget or fails in transport leaves the ledger unchanged
C12_UsageRecordedPerResponse ==
    [][ /\ Completes("responded") =>
              LET usage == history'[Len(history')].usage
                  inputTokenCount == IF usage.present THEN usage.input_tokens
                                     ELSE estimatedInputTokens
                  outputTokenCount == IF usage.present THEN usage.output_tokens
                                      ELSE CeilDiv(maxResponseTokens, 2)
              IN  /\ costTracking'.requestCount = costTracking.requestCount + 1
                  /\ costTracking'.inputTokens = costTracking.inputTokens + inputTokenCount
                  /\ costTracking'.outputTokens = costTracking.outputTokens + outputTokenCount
                  /\ ledgerFile'.exists
                  /\ ledgerFile'.data = costTracking'
        /\ ( \/ Completes("cost limit")
             \/ Completes("cost constraint")
             \/ Completes("failed") ) => costTracking' = costTracking
      ]_vars

(***************************************************************************)
(* The deduplicator on its own: the entry points of deduplicationUtils.ts  *)
(* on every list of up to MaxDedupeLen articles.                           *)
(***************************************************************************)
MaxDedupeLen == 3

\* scraped articles: those of the analysis, an article without a link whose
\* text is that of a1, the page of a3 without the final slash, with the text
\* of a2, and an article whose link is no URL
DedupeUniverse ==
    ArticleUniverse \cup
    { [title |-> "a5", link |-> NoLink, content |-> <<"Roads", " ", "funding">>],
      [title |-> "a6", link |-> Link("https://b.org/y", <<>>, FALSE),
       content |-> <<"bridge">>],
      \* a link that new URL() rejects
      [title |-> "a7",
       link |-> [valid |-> FALSE, base |-> "a.com/x", query |-> <<"utm_source">>,
                 slash |-> TRUE],
       content |-> <<"funding">>] }

\* ArticleInput: an article before scraping has no content
ArticleInputOf(article) == [title |-> article.title, link |-> article.link]

InitDedupe ==
    /\ IdleAnalysis
    /\ IdleLedger
    /\ IdleParser
    /\ IdleHarnesses("dedupe")
    /\ pc = "dedupe"
    /\ dedupedAgain = <<>>
    /\ contentFlag \in BOOLEAN
    /\ articles \in IF contentFlag
                    THEN ListsUpTo(DedupeUniverse, MaxDedupeLen)
                    ELSE ListsUpTo({ArticleInputOf(a) : a \in DedupeUniverse},
                                   MaxDedupeLen)

\* deduplicateScrapedArticles(articles), or deduplicateArticleInputs(articles)
\* for articles without content
Deduplicate ==
    /\ pc = "dedupe"
    /\ uniqueArticles' = deduplicateArticles(articles, contentFlag)
    /\ pc' = "deduped"
    /\ UNCHANGED <<CONFIG, now, costTracking, ledgerFile, articles, batchIndex,
                   results, sortedResults, estimatedInputTokens, history,
                   lastLoad, lastCheck, env, parserVars, dedupeVars, exportVars,
                   scraperVars, stageVars, schedulerVars>>

\* the same entry point on the list it returned
DeduplicateAgain ==
    /\ pc = "deduped"
    /\ dedupedAgain' = deduplicateArticles(uniqueArticles, contentFlag)
    /\ pc' = "deduped twice"
    /\ UNCHANGED <<CONFIG, now, costTracking, ledgerFile, articles, uniqueArticles,
                   batchIndex, results, sortedResults, estimatedInputTokens,
                   history, lastLoad, lastCheck, env, parserVars, contentFlag,
                   exportVars, scraperVars, stageVars, schedulerVars>>

DedupeNext == Deduplicate \/ DeduplicateAgain

DedupeSpec == InitDedupe /\ [][DedupeNext]_vars

\* the articles of the list at the positions of S, in order
RECURSIVE Pick(_, _)
Pick(list, S) ==
    IF list = <<>> THEN <<>>
    ELSE LET front == Pick(SubSeq(list, 1, Len(list) - 1), S)
         IN  IF Len(list) \in S THEN Append(front, list[Len(list)]) ELSE front

NonEmptyContent(article) == HasContent(article) /\ ~IsEmptyContent(article.content)

SameUrl(a, b) ==
    HasLink(a) /\ HasLink(b) /\ normalizeUrl(a.link) = normalizeUrl(b.link)

SameContentKey(a, b) ==
    /\ NonEmptyContent(a)
    /\ NonEmptyContent(b)
    /\ calculateContentHash(a.content) = calculateContentHash(b.content)

Deduped == pc \in {"deduped", "deduped twice"}

\* C14: the result of deduplicateArticles is a subsequence of the input
\* (articles unmodified, in input order), and every removed article has the
\* normalized URL, or with non-empty content the content key, of an earlier
\* article that was kept
C14_SubsequenceFirstOccurrenceWins ==
    Deduped =>
        \E S \in SUBSET (1..Len(articles)) :
            /\ uniqueArticles = Pick(articles, S)
            /\ \A i \in (1..Len(articles)) \ S :
                   \E j \in S :
                       /\ j < i
                       /\ \/ SameUrl(articles[j], articles[i])
                          \/ SameContentKey(articles[j], articles[i])

\* one article was removed for its URL and one for its content
C14_Witness ==
    /\ Deduped
    /\ Len(articles) = 3
    /\ Len(uniqueArticles) = 1
    /\ \E i \in 2..3 : /\ SameUrl(articles[1], articles[i])
                        /\ ~SameContentKey(articles[1], articles[i])
    /\ \E i \in 2..3 : /\ SameContentKey(articles[1], articles[i])
                        /\ ~SameUrl(articles[1], articles[i])

\* C15: in the result no two articles with a link have equal normalized
\* URLs, and no two articles with a link and non-empty content have equal
\* content keys
C15_NoDuplicatesInResult ==
    Deduped =>
        \A i, j \in 1..Len(uniqueArticles) :
            (i < j /\ HasLink(uniqueArticles[i]) /\ HasLink(uniqueArticles[j])) =>
                /\ ~SameUrl(uniqueArticles[i], uniqueArticles[j])
                /\ ~SameContentKey(uniqueArticles[i], uniqueArticles[j])

\* a URL that differs only in a tracking parameter was removed, and two
\* articles with links were kept
C15_Witness ==
    /\ Deduped
    /\ Len(uniqueArticles) = 2
    /\ HasLink(uniqueArticles[1]) /\ HasLink(uniqueArticles[2])
    /\ \E i, j \in 1..Len(articles) :
           /\ i < j
           /\ articles[i].link # articles[j].link
           /\ SameUrl(articles[i], articles[j])

\* C16: deduplicateScrapedArticles applied to its own result returns that
\* result, element for element
C16_Idempotent ==
    pc = "deduped twice" => dedupedAgain = uniqueArticles

\* the first pass removed two articles, the second none
C16_Witness ==
    /\ pc = "deduped twice"
    /\ contentFlag
    /\ Len(articles) = 3
    /\ Len(uniqueArticles) = 1
    /\ dedupedAgain = uniqueArticles

NoLinkArticle(article) == ~HasLink(article)

\* C17: every article without a link is in the result, whatever its content
\* and the other articles, and it causes no other article to be removed
C17_NoLinkKeptAndHarmless ==
    Deduped =>
        /\ SelectSeq(uniqueArticles, NoLinkArticle) = SelectSeq(articles, NoLinkArticle)
        /\ SelectSeq(uniqueArticles, HasLink)
             = deduplicateArticles(SelectSeq(articles, HasLink), contentFlag)

\* an article without a link was kept between two articles of the same text
C17_Witness ==
    /\ Deduped
    /\ contentFlag
    /\ Len(articles) = 3
    /\ ~HasLink(articles[1])
    /\ SameContentKey(articles[1], articles[2])
    /\ SameContentKey(articles[2], articles[3])
    /\ Len(uniqueArticles) = 2

(***************************************************************************)
(* exportAnalyzedArticles: the filter on minRelevanceScore and the five    *)
(* renderers.  A row is what a renderer writes for one article.            *)
(***************************************************************************)
MaxExportLen == 3
DefaultMinRelevanceScore == 0
\* an option that was not given: no score has this value
Undefined == 0 - 1

ExportFormats == {"csv", "excel", "json", "markdown", "html"}

\* analyzed articles with scores on both sides of the thresholds; two share a
\* score
AnalyzedUniverse ==
    { [title |-> "e1", relevanceScore |-> 0, content |-> <<"Roads">>],
      [title |-> "e2", relevanceScore |-> 50, content |-> <<"bridge">>],
      [title |-> "e3", relevanceScore |-> 50, content |-> <<>>],
      [title |-> "e4", relevanceScore |-> 100, content |-> <<"funding">>] }

\* mutant: a filter with an exclusive bound
FilterByScoreExclusive(list, minRelevanceScore) ==
    LET Keep(article) == article.relevanceScore > minRelevanceScore
    IN  SelectSeq(list, Keep)

\* line 56: articles.filter(article => article.relevanceScore >= minRelevanceScore)
FilterByScore(list, minRelevanceScore) ==
    LET Keep(article) == article.relevanceScore >= minRelevanceScore
    IN  SelectSeq(list, Keep)

\* the cells of one article; the CSV writer always writes the content
Row(article, includeFullContent) ==
    IF includeFullContent
    THEN [relevanceScore |-> article.relevanceScore, title |-> article.title,
          content |-> article.content]
    ELSE [relevanceScore |-> article.relevanceScore, title |-> article.title]

\* articles.map / forEach / for-of: one row per article, in order
RECURSIVE Rows(_, _)
Rows(list, includeFullContent) ==
    IF list = <<>> THEN <<>>
    ELSE <<Row(Head(list), includeFullContent)>>
         \o Rows(Tail(list), includeFullContent)

\* Array.prototype.slice(from, to) on 0-based positions
Slice(list, from, to) == SubSeq(list, from + 1, Min(to, Len(list)))

\* exportToExcel lines 118-122: the rows of the chunks, chunk after chunk
RECURSIVE ExcelRows(_, _, _, _)
ExcelRows(list, i, chunkSize, includeFullContent) ==
    IF i >= Len(list) THEN <<>>
    ELSE Rows(Slice(list, i, i + chunkSize), includeFullContent)
         \o ExcelRows(list, i + chunkSize, chunkSize, includeFullContent)

writeAnalyzedArticles(list) == Rows(list, TRUE)
exportToExcel(list, includeFullContent, chunkSize) ==
    ExcelRows(list, 0, chunkSize, includeFullContent)
exportToJson(list, includeFullContent) == Rows(list, includeFullContent)
exportToMarkdown(list, includeFullContent) == Rows(list, includeFullContent)
exportToHtml(list, includeFullContent) == Rows(list, includeFullContent)

\* line 54: an option that is undefined takes the configured default
minRelevanceScoreOf(options) ==
    IF options.minRelevanceScore = Undefined
    THEN DefaultMinRelevanceScore
    ELSE options.minRelevanceScore

\* lines 54-75: the filter, then the renderer of the format
exportAnalyzedArticles(list, options) ==
    LET filteredArticles == FilterByScore(list, minRelevanceScoreOf(options))
    IN  CASE options.format = "csv" -> writeAnalyzedArticles(filteredArticles)
          [] options.format = "excel" ->
               exportToExcel(filteredArticles, options.includeFullContent,
                             options.chunkSize)
          [] options.format = "json" ->
               exportToJson(filteredArticles, options.includeFullContent)
          [] options.format = "markdown" ->
               exportToMarkdown(filteredArticles, options.includeFullContent)
          [] options.format = "html" ->
               exportToHtml(filteredArticles, options.includeFullContent)

InitExport ==
    /\ IdleAnalysis
    /\ IdleLedger
    /\ IdleParser
    /\ IdleHarnesses("export")
    /\ articles = <<>>
    /\ pc = "export"
    /\ rendered = <<>>
    /\ exportArticles \in ListsUpTo(AnalyzedUniverse, MaxExportLen)
    /\ exportOptions \in [format : ExportFormats \cup {"pdf"},
                          minRelevanceScore : {Undefined, 50, 51, 100},
                          includeFullContent : BOOLEAN,
                          chunkSize : {1, 2}]

\* exportAnalyzedArticles with a format of the switch
ExportAnalyzedArticles ==
    /\ pc = "export"
    /\ exportOptions.format \in ExportFormats
    /\ rendered' = exportAnalyzedArticles(exportArticles, exportOptions)
    /\ pc' = "exported"
    /\ UNCHANGED <<runVars, articles, uniqueArticles, parserVars, dedupeVars,
                   exportArticles, exportOptions, scraperVars, stageVars, schedulerVars>>

\* the default branch of the switch: Unsupported export format
UnsupportedFormat ==
    /\ pc = "export"
    /\ exportOptions.format \notin ExportFormats
    /\ pc' = "export threw"
    /\ UNCHANGED <<runVars, articles, uniqueArticles, parserVars, dedupeVars,
                   exportVars, scraperVars, stageVars, schedulerVars>>

ExportNext == ExportAnalyzedArticles \/ UnsupportedFormat

ExportSpec == InitExport /\ [][ExportNext]_vars

\* what identifies the article of a row
ArticleOfRow(row) == [title |-> row.title, relevanceScore |-> row.relevanceScore]

RECURSIVE ArticlesOfRows(_)
ArticlesOfRows(rows) ==
    IF rows = <<>> THEN <<>>
    ELSE <<ArticleOfRow(Head(rows))>> \o ArticlesOfRows(Tail(rows))

AtLeastMinimum(article) ==
    article.relevanceScore >= minRelevanceScoreOf(exportOptions)

\* C18: for each of the five formats the rendered rows are those of the
\* articles with relevanceScore >= minRelevanceScore, one row per article, in
\* input order
C18_RendersExactlyTheFilteredArticles ==
    pc = "exported" =>
        /\ Len(rendered) = Len(SelectSeq(exportArticles, AtLeastMinimum))
        /\ ArticlesOfRows(rendered)
             = ArticlesOfRows(SelectSeq(exportArticles, AtLeastMinimum))

\* a spreadsheet of two chunks: an article at the bound is rendered, one
\* below it is not
C18_Witness ==
    /\ pc = "exported"
    /\ exportOptions.format = "excel"
    /\ exportOptions.chunkSize = 1
    /\ exportOptions.minRelevanceScore = 50
    /\ Len(exportArticles) = 3
    /\ Len(rendered) = 2
    /\ rendered[1].relevanceScore = 100
    /\ rendered[2].relevanceScore = 50

(***************************************************************************)
(* scrapeArticle and extractArticleContent: the requests of one article,   *)
(* repeated by backOff, and the record that comes back.                    *)
(***************************************************************************)
MaxRetries == 3

NoError == ""

\* what a request can do
FetchFailures == {"timeout", "network failure", "non-2xx status"}

\* error.message of what fetch or line 58 throws
MessageOf(failure) ==
    CASE failure = "timeout" -> "The operation was aborted due to timeout"
      [] failure = "network failure" -> "fetch failed"
      [] failure = "non-2xx status" -> "HTTP error! Status: 500"
      [] failure = "extraction error" -> "Invalid URL"

\* a || b on numbers
OrElse(a, b) == IF a # 0 THEN a ELSE b

\* line 64, and backOff's own lower bound of one attempt
numOfAttempts(retries) == Max(OrElse(retries, retries), 1)

\* lines 199-210: the content of a page that was read; the text is trimmed
\* and may be empty
PageTexts == {<<>>, <<"Roads", "funding">>}
ExtractedContent(textContent) == [textContent |-> textContent, error |-> NoError]

\* lines 211-224: the catch of extractArticleContent
ErrorContent(message) == [textContent |-> <<>>, error |-> message]

\* mutant: a record that leaves the error out
scrapeArticleWithoutError(article, content) ==
    [returned |-> TRUE, alertName |-> article.alertName, title |-> article.title,
     link |-> article.link, content |-> content.textContent, error |-> NoError]

\* part_001 lines 31-35: extractArticleContent returns for every outcome, so
\* the catch of lines 36-52 has nothing to catch
scrapeArticle(article, content) ==
    [returned |-> TRUE, alertName |-> article.alertName, title |-> article.title,
     link |-> article.link, content |-> content.textContent,
     error |-> content.error]

ScrapeInputs ==
    { [alertName |-> "roads", title |-> "a1", link |-> "https://a.com/x"],
      [alertName |-> "", title |-> "a5", link |-> ""] }

InitScraper ==
    /\ IdleAnalysis
    /\ IdleLedger
    /\ IdleParser
    /\ IdleHarnesses("scraper")
    /\ articles = <<>>
    /\ pc = "fetch"
    /\ scrapeInput \in ScrapeInputs
    /\ scraperRetries \in 0..MaxRetries
    /\ requestLog = <<>>
    /\ scrapeResult = NotScraped

\* one request that fails: backOff starts another one unless this was the
\* last attempt, and then the error reaches the catch of the extractor
FetchFails(failure) ==
    /\ pc = "fetch"
    /\ requestLog' = Append(requestLog, failure)
    /\ IF Len(requestLog') >= numOfAttempts(scraperRetries)
       THEN /\ scrapeResult' = scrapeArticle(scrapeInput,
                                             ErrorContent(MessageOf(failure)))
            /\ pc' = "scraped"
       ELSE UNCHANGED <<scrapeResult, pc>>
    /\ UNCHANGED <<runVars, articles, uniqueArticles, parserVars, dedupeVars,
                   exportVars, scrapeInput, scraperRetries, stageVars,
                   schedulerVars>>

\* one request that succeeds: the page is extracted, or the extraction throws
FetchSucceeds ==
    /\ pc = "fetch"
    /\ requestLog' = Append(requestLog, "ok")
    /\ \E content \in {ExtractedContent(t) : t \in PageTexts}
                      \cup {ErrorContent(MessageOf("extraction error"))} :
           scrapeResult' = scrapeArticle(scrapeInput, content)
    /\ pc' = "scraped"
    /\ UNCHANGED <<runVars, articles, uniqueArticles, parserVars, dedupeVars,
                   exportVars, scrapeInput, scraperRetries, stageVars,
                   schedulerVars>>

ScraperNext == (\E failure \in FetchFailures : FetchFails(failure)) \/ FetchSucceeds

ScraperSpec == InitScraper /\ [][ScraperNext]_vars

AllRequestsFailed == \A i \in 1..Len(requestLog) : requestLog[i] # "ok"

ScrapeFailed ==
    /\ pc = "scraped"
    /\ \/ AllRequestsFailed
       \/ scrapeResult.error = MessageOf("extraction error")

\* C19: scrapeArticle returns for every failure: once the attempts are used
\* up, or the extraction has thrown, the record has the alertName, title and
\* link of the input, a populated error and empty content
C19_FailureReturnsErrorRecord ==
    /\ (AllRequestsFailed /\ Len(requestLog) >= numOfAttempts(scraperRetries))
           => pc = "scraped"
    /\ pc = "scraped" => scrapeResult.returned
    /\ ScrapeFailed =>
           /\ scrapeResult.alertName = scrapeInput.alertName
           /\ scrapeResult.title = scrapeInput.title
           /\ scrapeResult.link = scrapeInput.link
           /\ scrapeResult.error # NoError
           /\ scrapeResult.content = <<>>

\* three requests failed in three ways and the record of the last failure came
\* back
C19_Witness ==
    /\ pc = "scraped"
    /\ requestLog = <<"timeout", "network failure", "non-2xx status">>
    /\ scrapeResult.error = MessageOf("non-2xx status")
    /\ scrapeResult.link = "https://a.com/x"

\* C20: when every request fails, the error result comes after the initial
\* request and exactly maxRetries retries, never more; a request that
\* succeeds is the last one
C20_InitialRequestPlusMaxRetries ==
    /\ Len(requestLog) <= 1 + scraperRetries
    /\ (pc = "scraped" /\ AllRequestsFailed) => Len(requestLog) = 1 + scraperRetries
    /\ \A i \in 1..Len(requestLog) : requestLog[i] = "ok" => i = Len(requestLog)

(***************************************************************************)
(* The whole run: runEntirePipeline fetches the feeds into a CSV, and      *)
(* runAnalysis reads the CSV, scrapes, analyzes and exports.               *)
(***************************************************************************)
MaxFeeds == 2
MaxFeedRetries == 1

ArticleTitled(title) == CHOOSE a \in ArticleUniverse : a.title = title

\* feed.items of each feed, as fetchRssFeed maps them (lines 73-77)
FeedItems(i) ==
    IF i = 1 THEN <<ArticleInputOf(ArticleTitled("a1"))>>
    ELSE <<ArticleInputOf(ArticleTitled("a2")), ArticleInputOf(ArticleTitled("a3"))>>

\* processRssFeeds: the results of the feeds, flattened in feed order
AfterFeed ==
    /\ feedIndex' = feedIndex + 1
    /\ retryCount' = 0
    /\ stage' = IF feedIndex + 1 > MaxFeeds THEN "csv" ELSE "feeds"

InitPipeline ==
    /\ IdleAnalysis
    /\ IdleParser
    /\ IdleHarnesses("run")
    /\ pc = "load"
    /\ articles = <<>>
    /\ CONFIG \in [batchSize : {1, 3}, monthlyCostLimit : {SmallLimit},
                   maxTokensPerRequest : {4000}]
    /\ ledgerFile \in {NoFile,
                       FileLedger(70000, StartDate),
                       FileLedger(50 * UnitsPerDollar, StartDate)}
    /\ env = [ticks |-> 0, faults |-> 0, texts |-> ResponseTexts,
              usages |-> {NoUsage}]
    /\ stage = "feeds"
    /\ revision \in {"src", "dist"}
    /\ feedIndex = 1
    /\ retryCount = 0
    /\ articleLinks = <<>>
    /\ scrapedArticles = <<>>
    /\ rssRetries = MaxFeedRetries
    /\ feedLog = <<>>

\* Math.pow(2, retryCount): the wait before the next try, in seconds
RECURSIVE BackoffSeconds(_)
BackoffSeconds(k) == IF k = 0 THEN 1 ELSE 2 * BackoffSeconds(k - 1)

MayRetryOnceMore(count, retries) == count <= retries

\* fetchRssFeed line 82: if (retryCount < CONFIG.rss.retries)
MayRetry(count, retries) == count < retries

\* one try of fetchRssFeed as it is observed: the feed, the retryCount of the
\* call, whether parseURL returned, and the seconds slept after it
FeedAttempt(ok, wait) ==
    [feed |-> feedIndex, retryCount |-> retryCount, ok |-> ok, wait |-> wait]

\* fetchRssFeed lines 78-91: parseURL threw; another try, or no articles
FetchRssFeedFails ==
    /\ stage = "feeds"
    /\ pc = "ready"
    /\ IF MayRetry(retryCount, rssRetries)
       THEN /\ retryCount' = retryCount + 1
            /\ feedLog' = Append(feedLog,
                                 FeedAttempt(FALSE, BackoffSeconds(retryCount)))
            /\ UNCHANGED <<feedIndex, stage>>
       ELSE /\ feedLog' = Append(feedLog, FeedAttempt(FALSE, 0))
            /\ AfterFeed
    /\ UNCHANGED <<runVars, pc, articles, uniqueArticles, parserVars, dedupeVars,
                   exportVars, scraperVars, schedulerVars, rssRetries,
                   revision, articleLinks,
                   scrapedArticles>>

\* fetchRssFeed lines 70-77: the items of the feed
FetchRssFeedSucceeds ==
    /\ stage = "feeds"
    /\ pc = "ready"
    /\ articleLinks' = articleLinks \o FeedItems(feedIndex)
    /\ feedLog' = Append(feedLog, FeedAttempt(TRUE, 0))
    /\ AfterFeed
    /\ UNCHANGED <<runVars, pc, articles, uniqueArticles, parserVars, dedupeVars,
                   exportVars, scraperVars, schedulerVars, rssRetries,
                   revision, scrapedArticles>>

\* exportArticlesToCsv writes one row per article and runAnalysis reads the
\* rows back with readArticleLinks (index.ts 305-308)
ReadArticleLinks ==
    /\ stage = "csv"
    /\ stage' = "scrape"
    /\ feedLog' = <<>>
    /\ UNCHANGED <<runVars, pc, articles, uniqueArticles, parserVars, dedupeVars,
                   exportVars, scraperVars, schedulerVars, rssRetries,
                   revision, feedIndex, retryCount,
                   articleLinks, scrapedArticles>>

\* an article as scrapeArticle returns it: with the text of the page, or with
\* empty content when the requests failed
Scraped(input, ok) ==
    [title |-> input.title, link |-> input.link,
     content |-> IF ok THEN ArticleTitled(input.title).content ELSE <<>>]

\* index.ts 336-373: scrapeArticles returns one record per link
ScrapeArticles ==
    /\ stage = "scrape"
    /\ \E ok \in [1..Len(articleLinks) -> BOOLEAN] :
           scrapedArticles' = [k \in 1..Len(articleLinks) |->
                                   Scraped(articleLinks[k], ok[k])]
    /\ stage' = "analyze"
    /\ UNCHANGED <<runVars, pc, articles, uniqueArticles, parserVars, dedupeVars,
                   exportVars, scraperVars, schedulerVars, rssRetries, feedLog,
                   revision, feedIndex, retryCount,
                   articleLinks>>

\* index.ts 379-381: No articles to analyze
RunAnalysisThrows ==
    /\ stage = "analyze"
    /\ revision = "src"
    /\ scrapedArticles = <<>>
    /\ stage' = "threw"
    /\ UNCHANGED <<runVars, pc, articles, uniqueArticles, parserVars, dedupeVars,
                   exportVars, scraperVars, schedulerVars, rssRetries, feedLog,
                   revision, feedIndex, retryCount,
                   articleLinks, scrapedArticles>>

\* index.ts 383-386, dist line 177: analyzeContent(scrapedArticles, criteria)
CallAnalyzeContent ==
    /\ stage = "analyze"
    /\ revision = "dist" \/ scrapedArticles # <<>>
    /\ articles' = scrapedArticles
    /\ stage' = "analyzing"
    /\ UNCHANGED <<runVars, pc, uniqueArticles, parserVars, dedupeVars,
                   exportVars, scraperVars, schedulerVars, rssRetries, feedLog,
                   revision, feedIndex, retryCount,
                   articleLinks, scrapedArticles>>

AnalyzeScraped == stage = "analyzing" /\ AnalyzeContent

\* { ...article, relevanceScore, relevanceExplanation }
AnalyzedArticle(result) ==
    [title |-> result.article.title, relevanceScore |-> result.relevanceScore,
     content |-> result.article.content]

\* index.ts 389-408: the report is written and its path returned
ExportReport ==
    /\ stage = "analyzing"
    /\ pc = "done"
    /\ \E format \in {"html", "excel"} :
         /\ exportOptions' = [format |-> format, minRelevanceScore |-> Undefined,
                              includeFullContent |-> FALSE, chunkSize |-> 2]
         /\ exportArticles' = [k \in 1..Len(sortedResults) |->
                                   AnalyzedArticle(sortedResults[k])]
         /\ rendered' = exportAnalyzedArticles(exportArticles', exportOptions')
    /\ stage' = "returned"
    /\ UNCHANGED <<runVars, pc, articles, uniqueArticles, parserVars, dedupeVars,
                   scraperVars, schedulerVars, rssRetries, feedLog, revision,
                   feedIndex, retryCount, articleLinks, scrapedArticles>>

PipelineNext ==
    \/ ModuleLoad
    \/ FetchRssFeedFails
    \/ FetchRssFeedSucceeds
    \/ ReadArticleLinks
    \/ ScrapeArticles
    \/ RunAnalysisThrows
    \/ CallAnalyzeContent
    \/ AnalyzeScraped
    \/ SkipForCostLimit
    \/ SkipForCostConstraint
    \/ Dispatch
    \/ Respond
    \/ TransportFailure
    \/ ExportReport

PipelineSpec == InitPipeline /\ [][PipelineNext]_vars

\* processRssFeeds alone, for every number of retries up to the default
InitFeeds ==
    /\ IdleAnalysis
    /\ IdleLedger
    /\ IdleParser
    /\ IdleHarnesses("feeds")
    /\ articles = <<>>
    /\ pc = "ready"
    /\ stage = "feeds"
    /\ revision = "src"
    /\ feedIndex = 1
    /\ retryCount = 0
    /\ articleLinks = <<>>
    /\ scrapedArticles = <<>>
    /\ rssRetries \in 0..MaxFeedRetries + 2
    /\ feedLog = <<>>

FeedsNext == FetchRssFeedFails \/ FetchRssFeedSucceeds

FeedsSpec == InitFeeds /\ [][FeedsNext]_vars

\* C13: whatever fails while the feeds and the articles are fetched and the
\* batches are analyzed, the run never halts with an error before the export
C13_NeverHaltsBeforeExport == stage # "threw"

(***************************************************************************)
(* The correlation of response blocks and articles.                        *)
(***************************************************************************)
\* the markers of the response that carry the batch-local ID k
BlocksOf(k) == {p \in IdPositions(response) : response[p].s = ToString(k)}

\* the IDs of the response that are no position of the batch
ForeignIds == Present(response) \ {ToString(k) : k \in 1..Len(ParserBatch)}

\* C21: the article at position k of the batch has the score and
\* explanation of a block of the response with ARTICLE_ID k, wherever the
\* block stands, and the zero score of a missing result without such a block;
\* the blocks of an ID that is no position of the batch change no result
C21_ResultOfOwnBlock ==
    pc = "mapped" =>
        /\ Len(results) = Len(ParserBatch)
        /\ \A k \in 1..Len(results) :
               /\ results[k].article = ParserBatch[k]
               /\ IF BlocksOf(k) = {}
                  THEN /\ results[k].relevanceScore = 0
                       /\ results[k].relevanceExplanation = FailedToGetResult
                  ELSE \E p \in BlocksOf(k) :
                           SectionResult(SectionAfter(response, p))
                             = [score |-> results[k].relevanceScore,
                                explanation |-> results[k].relevanceExplanation]
        /\ \A id \in ForeignIds :
               results = MapResults(ParserBatch, 0,
                             parseBatchAnalysisResult(WithoutBlocks(response, id, FALSE)))

\* the block of article 2 stands before the block of article 1, with
\* different scores
C21_Witness ==
    /\ pc = "mapped"
    /\ response = <<IdTok("2"), ScoreTok(150), IdTok("1"), ScoreTok(70)>>
    /\ results[1].relevanceScore = 70
    /\ results[2].relevanceScore = 100


\* ---------------------------------------------------------------------------
\* fetchRssFeed and processRssFeeds: retries, waits and the returned items

\* the tries of one feed, in the order in which they were made
RECURSIVE AttemptsOf(_, _)
AttemptsOf(log, f) ==
    IF log = <<>> THEN <<>>
    ELSE IF Head(log).feed = f THEN <<Head(log)>> \o AttemptsOf(Tail(log), f)
    ELSE AttemptsOf(Tail(log), f)

FeedSucceeded(f) ==
    LET tries == AttemptsOf(feedLog, f)
    IN  tries # <<>> /\ tries[Len(tries)].ok

\* results.flat(): the items of the feeds that succeeded, in feed order
RECURSIVE ItemsOfSucceeded(_)
ItemsOfSucceeded(f) ==
    IF f > MaxFeeds THEN <<>>
    ELSE (IF FeedSucceeded(f) THEN FeedItems(f) ELSE <<>>)
         \o ItemsOfSucceeded(f + 1)

\* C27: fetchRssFeed ends without raising: a feed whose every try fails is
\* tried exactly CONFIG.rss.retries + 1 times, try k is followed by a wait of
\* 2^k seconds before try k + 1, and the feed yields no items; processRssFeeds
\* returns the items of every feed that succeeded, in feed order.
C27_RetriesWaitsAndItems ==
    /\ \A f \in 1..MaxFeeds :
         LET tries == AttemptsOf(feedLog, f)
         IN  /\ Len(tries) <= rssRetries + 1
             /\ \A k \in 1..Len(tries) :
                    /\ tries[k].retryCount = k - 1
                    /\ k < Len(tries) =>
                           /\ ~tries[k].ok
                           /\ tries[k].wait = 2 ^ (k - 1)
             /\ (f < feedIndex /\ ~FeedSucceeded(f)) =>
                    /\ Len(tries) = rssRetries + 1
                    /\ tries[Len(tries)].wait = 0
    /\ stage = "csv" => articleLinks = ItemsOfSucceeded(1)
    /\ stage \in {"feeds", "csv"}

\* the first feed was given up after four tries with waits of 1, 2 and 4
\* seconds and the second feed answered at its second try
C27_Witness ==
    /\ stage = "csv"
    /\ rssRetries = 3
    /\ Len(AttemptsOf(feedLog, 1)) = 4
    /\ ~FeedSucceeded(1)
    /\ AttemptsOf(feedLog, 1)[3].wait = 4
    /\ Len(AttemptsOf(feedLog, 2)) = 2
    /\ FeedSucceeded(2)
    /\ articleLinks = FeedItems(2)


\* ---------------------------------------------------------------------------
\* Concurrent calls of analyzeText on the one ledger of claudeClient.ts.  Each
\* await of the code is a point where another call may run.

MaxCalls == 2

\* the tokens the response of call c reports
UsageOfCall(c) ==
    [present |-> TRUE, input_tokens |-> 1000 * c, output_tokens |-> 500]

NewCall ==
    [pc |-> "start", read |-> NoFile, data |-> DefaultLedger(StartDate),
     counted |-> FALSE]

InitCalls ==
    /\ IdleAnalysis
    /\ IdleParser
    /\ IdleHarnesses("calls")
    /\ articles = <<>>
    /\ pc = "calls"
    /\ CONFIG = [batchSize |-> 1, monthlyCostLimit |-> DefaultLimit,
                 maxTokensPerRequest |-> 4000]
    /\ ledgerFile = [exists |-> TRUE, data |-> DefaultLedger(StartDate)]
    /\ env = [ticks |-> 0, faults |-> 0, texts |-> {}, usages |-> {}]
    /\ calls = [c \in 1..MaxCalls |-> NewCall]

CallsUnchanged ==
    UNCHANGED <<CONFIG, now, pc, articles, uniqueArticles, batchIndex, results,
                sortedResults, estimatedInputTokens, history, lastLoad,
                lastCheck, env, parserVars, dedupeVars, exportVars,
                scraperVars, stageVars, requestQueue, limiter>>

\* loadCostTracking lines 46-49: after the mkdir, readFile returns the
\* content the file has at this moment
ReadLedgerFile(c) ==
    /\ calls[c].pc = "start"
    /\ calls' = [calls EXCEPT ![c].pc = "read", ![c].read = ledgerFile]
    /\ UNCHANGED <<costTracking, ledgerFile>>
    /\ CallsUnchanged

\* loadCostTracking lines 50-62 on what was read, then checkCostLimit lines
\* 120-129 and analyzeText lines 141-178 up to the await of the request
AssignLoaded(c) ==
    /\ calls[c].pc = "read"
    /\ LET l == loadCostTracking(costTracking, calls[c].read, now, TRUE, TRUE)
           estimate == CeilDiv(4000, 4)
           estimatedCost == calculateCost(estimate, maxResponseTokens)
           proceeds == /\ UnderCostLimit(l.ledger, CONFIG.monthlyCostLimit)
                       /\ ~EstimateExceeds(l.ledger, estimatedCost,
                                           CONFIG.monthlyCostLimit)
       IN  /\ costTracking' = l.ledger
           /\ ledgerFile' = IF l.wrote THEN l.file ELSE ledgerFile
           /\ calls' = [calls EXCEPT
                           ![c].pc = IF proceeds THEN "inflight" ELSE "returned"]
    /\ CallsUnchanged

\* updateCostTracking lines 99-108: the response arrived and the ledger in
\* memory is increased; saveCostTracking line 74 then awaits the mkdir
AddToLedger(c) ==
    /\ calls[c].pc = "inflight"
    /\ costTracking' = AddUsage(costTracking, UsageOfCall(c).input_tokens,
                                UsageOfCall(c).output_tokens, now)
    /\ calls' = [calls EXCEPT ![c].pc = "saving", ![c].counted = TRUE]
    /\ UNCHANGED ledgerFile
    /\ CallsUnchanged

\* analyzeText lines 208-211: the request threw, nothing is added
RequestThrows(c) ==
    /\ calls[c].pc = "inflight"
    /\ calls' = [calls EXCEPT ![c].pc = "returned"]
    /\ UNCHANGED <<costTracking, ledgerFile>>
    /\ CallsUnchanged

\* saveCostTracking lines 75-78: JSON.stringify(costTracking) of the ledger
\* as it is after the mkdir, handed to writeFile
StringifyLedger(c) ==
    /\ calls[c].pc = "saving"
    /\ calls' = [calls EXCEPT ![c].pc = "writing", ![c].data = costTracking]
    /\ UNCHANGED <<costTracking, ledgerFile>>
    /\ CallsUnchanged

\* the write reaches the file and analyzeText returns
WriteLedgerFile(c) ==
    /\ calls[c].pc = "writing"
    /\ ledgerFile' = saveCostTracking(calls[c].data, ledgerFile, TRUE)
    /\ calls' = [calls EXCEPT ![c].pc = "returned"]
    /\ UNCHANGED costTracking
    /\ CallsUnchanged

CallsNext ==
    \E c \in 1..MaxCalls :
        \/ ReadLedgerFile(c)
        \/ AssignLoaded(c)
        \/ AddToLedger(c)
        \/ RequestThrows(c)
        \/ StringifyLedger(c)
        \/ WriteLedgerFile(c)

CallsSpec == InitCalls /\ [][CallsNext]_vars

\* the ledger after the calls 1..c that added their usage
RECURSIVE SumOfCounted(_)
SumOfCounted(c) ==
    IF c = 0 THEN DefaultLedger(StartDate)
    ELSE IF calls[c].counted
         THEN AddUsage(SumOfCounted(c - 1), UsageOfCall(c).input_tokens,
                       UsageOfCall(c).output_tokens, StartDate)
         ELSE SumOfCounted(c - 1)

AllCallsReturned == \A c \in 1..MaxCalls : calls[c].pc = "returned"

\* C22: however the concurrent calls of analyzeText interleave, once all of
\* them have returned the ledger in memory and the ledger file both hold the
\* sum of what the completed calls added: no update is lost.
C22_NoLedgerUpdateIsLost ==
    (pc = "calls" /\ AllCallsReturned) =>
        /\ costTracking = SumOfCounted(MaxCalls)
        /\ ledgerFile.data = SumOfCounted(MaxCalls)


\* ---------------------------------------------------------------------------
\* The life of a batch, read from the history of the run: a batch without an
\* entry is pending, "in flight" is a dispatched request, every other outcome
\* is final and the records of the batch are in results.

TerminalOutcomes == {"responded", "failed", "cost limit", "cost constraint"}
RefusedOutcomes == {"cost limit", "cost constraint"}

\* the number of articles in the batches that are final
ArticlesOfFinished(h) ==
    LET finished == {k \in 1..Len(h) : h[k].outcome \in TerminalOutcomes}
    IN  Min(Cardinality(finished) * size, Len(uniqueArticles))

\* C23 as stated: a batch is final only after a request was dispatched for it
C23_TerminalOnlyAfterInFlight ==
    [][\A k \in 1..Len(history') :
           history'[k].outcome \in TerminalOutcomes =>
               /\ k <= Len(history)
               /\ history[k].outcome \in TerminalOutcomes \cup {"in flight"}]_vars

\* C23: every batch moves only from pending to in flight to one final
\* outcome, or from pending straight to a final outcome when the budget check
\* refuses it and no request is dispatched; a final outcome never changes,
\* and the records of a batch are in results exactly when it is final.
C23_BatchLifecycle ==
    [][/\ Len(history') \in {Len(history), Len(history) + 1}
       /\ \A k \in 1..Len(history) :
              /\ history'[k].batch = history[k].batch
              /\ history[k].outcome \in TerminalOutcomes =>
                     history'[k] = history[k]
              /\ history'[k].outcome # history[k].outcome =>
                     /\ history[k].outcome = "in flight"
                     /\ history'[k].outcome \in {"responded", "failed"}
       /\ Len(history') > Len(history) =>
              LET new == history'[Len(history')]
              IN  /\ new.batch = Len(history)
                  /\ \A k \in 1..Len(history) :
                         history[k].outcome \in TerminalOutcomes
                  /\ new.outcome \in RefusedOutcomes \cup {"in flight"}
                  /\ new.outcome \in RefusedOutcomes <=>
                         ~lastCheck'.dispatched
                  /\ new.outcome = "cost limit" <=> ~lastCheck'.canProceed
       /\ Len(results') = ArticlesOfFinished(history')]_vars

\* a run of two batches is done: the first was answered after being in
\* flight, the second was refused by the budget check
C23_Witness ==
    /\ pc = "done"
    /\ Len(history) = 2
    /\ history[1].outcome = "responded"
    /\ history[2].outcome \in RefusedOutcomes
    /\ Len(results) = 2


InFlight(h) == {k \in 1..Len(h) : h[k].outcome = "in flight"}

\* C29: during analyzeArticlesBatch at most one inference request is in
\* flight, and the budget check and the dispatch of the next batch happen
\* only when every earlier batch is final, its ledger update or failure
\* handling done and its records mapped.
C29_OneRequestAtATime ==
    [][/\ Cardinality(InFlight(history')) <= 1
       /\ InFlight(history') \subseteq {Len(history')}
       /\ (InFlight(history') # {}) <=> (pc' = "inflight")
       /\ (lastCheck' # lastCheck \/ Len(history') > Len(history)) =>
              /\ pc = "check"
              /\ Len(history') = Len(history) + 1
              /\ InFlight(history) = {}
              /\ Len(results) = ArticlesOfFinished(history)
              /\ batchIndex = Len(history)]_vars

\* the request of the second batch is in flight; the first batch was
\* answered and its usage is in the ledger
C29_Witness ==
    /\ pc = "inflight"
    /\ Len(history) = 2
    /\ history[1].outcome = "responded"
    /\ history[2].outcome = "in flight"
    /\ Len(results) = 1
    /\ costTracking.requestCount >= 1


\* ---------------------------------------------------------------------------
\* The fallback of the compiled parser

\* the sections of an ID: what follows a marker, in any letter case, that
\* carries exactly this ID, up to the next marker
OwnSections(text, id) ==
    {SubSeq(text, p + 1, FirstFrom(text, p + 1, "(?=ARTICLE_ID:)i") - 1) :
        p \in {i \in 1..Len(text) : IsIdMarkerAnyCase(text[i]) /\ text[i].s = id}}

ExpectedIds == {expectedArticleIds[k] : k \in 1..Len(expectedArticleIds)}

\* C28: the compiled parseBatchAnalysisResult searches per ID exactly when
\* the primary parse produced no result, and then every expected ID whose
\* marker occurs in the response gets the score and explanation of a section
\* of its own, whatever the order of the sections.
C28_FallbackFindsOwnSection ==
    (pc = "parsed dist" /\ response # NoResult /\ response # <<>>) =>
        LET primary == PrimaryParse(response)
        IN  IF DOMAIN primary # {}
            THEN \A id \in ExpectedIds :
                     articleResults[id] = IF id \in DOMAIN primary
                                          THEN primary[id]
                                          ELSE CouldNotExtract
            ELSE \A id \in ExpectedIds :
                     OwnSections(response, id) # {} =>
                         \E section \in OwnSections(response, id) :
                             articleResults[id] = SectionResult(section)


\* ---------------------------------------------------------------------------
\* The limiters: createLimiter of the alert export, and pLimit as
\* scrapeArticles and processRssFeeds use it.  A task is new, queued,
\* sleeping (its delay before the request), fetching, done or rejected.
\* Time is counted in ticks; of the time since the last request only what is
\* below the configured delay is kept.

MaxTasks == 3
MaxConcurrency == 2
MaxDelay == 2

LimiterKinds == {"createLimiter", "pLimit"}

\* fresh: the request was sent in the present tick; a request takes time
NewTask == [state |-> "new", remaining |-> 0, starts |-> 0, fresh |-> FALSE]

\* the delay a task awaits before its request.  Alert export (part_009 line
\* 203): index * CONFIG.requestDelay; scrapeArticles and processRssFeeds:
\* requestDelay for every task but the first
SleepOf(l, i) ==
    IF l.kind = "createLimiter" THEN (i - 1) * l.requestDelay
    ELSE IF i > 1 THEN l.requestDelay ELSE 0

\* the request of task i is sent now
SendRequest(l, i) ==
    [l EXCEPT !.tasks[i].state = "fetching",
              !.tasks[i].fresh = TRUE,
              !.lastGap = IF l.requests = 0 THEN l.requestDelay ELSE l.sinceLast,
              !.sinceLast = 0,
              !.requests = @ + 1]

\* run: activeCount++ and the call of fn, up to its first await
run(l, i) ==
    LET a == [l EXCEPT !.activeCount = @ + 1,
                       !.started = Append(@, i),
                       !.tasks[i].starts = @ + 1]
    IN  IF SleepOf(l, i) = 0 THEN SendRequest(a, i)
        ELSE [a EXCEPT !.tasks[i].state = "sleeping",
                       !.tasks[i].remaining = SleepOf(l, i)]

\* next: activeCount-- and the first queued run, if any
next(l) ==
    LET a == [l EXCEPT !.activeCount = @ - 1]
    IN  IF Len(a.queue) > 0
        THEN run([a EXCEPT !.queue = Tail(@)], Head(a.queue))
        ELSE a

HasRoomInclusive(activeCount, concurrency) == activeCount <= concurrency

\* if (activeCount < concurrency)
HasRoom(activeCount, concurrency) == activeCount < concurrency

\* the function createLimiter returns, called for task i
limit(l, i) ==
    LET a == [l EXCEPT !.submitted = @ + 1]
    IN  IF HasRoom(l.activeCount, l.concurrency) THEN run(a, i)
        ELSE [a EXCEPT !.queue = Append(@, i), !.tasks[i].state = "queued"]

RunsNextOnlyOnSuccess(rejected) == ~rejected

\* try { ... } finally { next(); }
RunsNext(rejected) == TRUE

InitLimiter ==
    /\ IdleAnalysis
    /\ IdleLedger
    /\ IdleParser
    /\ IdleHarnesses("limiter")
    /\ articles = <<>>
    /\ pc = "limiter"
    /\ \E kind \in LimiterKinds, n \in 1..MaxConcurrency, delay \in 1..MaxDelay :
         limiter = [kind |-> kind, concurrency |-> n, requestDelay |-> delay,
                    tasks |-> [i \in 1..MaxTasks |-> NewTask],
                    submitted |-> 0, queue |-> <<>>, activeCount |-> 0,
                    started |-> <<>>, sinceLast |-> 0, lastGap |-> delay,
                    requests |-> 0, elapsed |-> FALSE]

LimiterUnchanged ==
    UNCHANGED <<pipelineVars, parserVars, dedupeVars, exportVars, scraperVars,
                stageVars, calls, requestQueue>>

Running(l) == {i \in 1..MaxTasks : l.tasks[i].state \in {"sleeping", "fetching"}}
Settled(l) == {i \in 1..MaxTasks : l.tasks[i].state \in {"done", "rejected"}}

\* articles.map(... limit(...)): the calls of limit follow each other at
\* once; createLimiter itself may be called at any time
Submit ==
    /\ pc = "limiter"
    /\ limiter.submitted < MaxTasks
    /\ limiter.kind = "pLimit" => (~limiter.elapsed /\ Settled(limiter) = {})
    /\ limiter' = limit(limiter, limiter.submitted + 1)
    /\ LimiterUnchanged

\* the timer of the delay fires and the request is sent
WakeUp(i) ==
    /\ pc = "limiter"
    /\ limiter.tasks[i].state = "sleeping"
    /\ limiter.tasks[i].remaining = 0
    /\ limiter' = SendRequest(limiter, i)
    /\ LimiterUnchanged

\* fn() settles: the task is over and the limiter goes on.  scrapeArticle
\* and fetchRssFeed catch their errors and never reject
Settle(i, rejected) ==
    /\ pc = "limiter"
    /\ limiter.tasks[i].state = "fetching"
    /\ ~limiter.tasks[i].fresh
    /\ limiter.kind = "pLimit" => (limiter.submitted = MaxTasks /\ ~rejected)
    /\ LET over == [limiter EXCEPT !.tasks[i].state =
                                       IF rejected THEN "rejected" ELSE "done"]
       IN  limiter' = IF RunsNext(rejected) THEN next(over) ELSE over
    /\ LimiterUnchanged

\* one tick passes; a timer that is due fires before time goes on
LimiterTick ==
    /\ pc = "limiter"
    /\ Running(limiter) # {}
    /\ \A i \in 1..MaxTasks :
           limiter.tasks[i].state = "sleeping" => limiter.tasks[i].remaining > 0
    /\ limiter' = [limiter EXCEPT
                      !.tasks = [i \in 1..MaxTasks |->
                                    IF limiter.tasks[i].state = "sleeping"
                                    THEN [limiter.tasks[i] EXCEPT !.remaining = @ - 1]
                                    ELSE [limiter.tasks[i] EXCEPT !.fresh = FALSE]],
                      !.sinceLast = Min(@ + 1, limiter.requestDelay),
                      !.elapsed = TRUE]
    /\ LimiterUnchanged

LimiterNext ==
    \/ Submit
    \/ \E i \in 1..MaxTasks : WakeUp(i)
    \/ \E i \in 1..MaxTasks, rejected \in BOOLEAN : Settle(i, rejected)
    \/ LimiterTick

LimiterSpec == InitLimiter /\ [][LimiterNext]_vars

\* C25: at every moment the tasks that have started and not yet finished
\* are at most maxConcurrent, for the limiter of the alert export and for
\* pLimit in scrapeArticles and processRssFeeds, for every number of
\* submitted tasks and every order in which they finish.
C25_RunningAtMostMaxConcurrent ==
    pc = "limiter" =>
        /\ Cardinality(Running(limiter)) <= limiter.concurrency
        /\ Cardinality(Running(limiter)) = limiter.activeCount

\* both places of the limiter are taken and a third task waits, after an
\* earlier task has finished
C25_Witness ==
    /\ pc = "limiter"
    /\ limiter.concurrency = 2
    /\ Cardinality(Running(limiter)) = 2
    /\ Settled(limiter) # {}
    /\ limiter.kind = "pLimit"

\* C26: within one scrapeArticles pass any two requests are sent at least
\* requestDelay apart, whatever the concurrency.
C26_RequestsAtLeastDelayApart ==
    (pc = "limiter" /\ limiter.kind = "pLimit") =>
        limiter.lastGap >= limiter.requestDelay

RECURSIVE Increasing(_)
Increasing(seq) ==
    Len(seq) < 2 \/ (seq[1] < seq[2] /\ Increasing(Tail(seq)))

\* C30: with createLimiter(n) no task is started twice, the tasks start in
\* the order of their submission, and whenever no started task is still
\* running every submitted task has been started, the active count is 0 and
\* the queue is empty, also after rejections.
C30_StartedOnceInOrderAndDrained ==
    (pc = "limiter" /\ limiter.kind = "createLimiter") =>
        /\ \A i \in 1..MaxTasks : limiter.tasks[i].starts <= 1
        /\ Increasing(limiter.started)
        /\ \A k \in 1..Len(limiter.queue) :
               limiter.tasks[limiter.queue[k]].state = "queued"
        /\ Running(limiter) = {} =>
               /\ limiter.queue = <<>>
               /\ limiter.activeCount = 0
               /\ \A i \in 1..limiter.submitted :
                      /\ limiter.tasks[i].starts = 1
                      /\ i \in Settled(limiter)

\* three tasks went through a limiter of one place: the first was rejected,
\* the queued ones were started after it, and all is over
C30_Witness ==
    /\ pc = "limiter"
    /\ limiter.kind = "createLimiter"
    /\ limiter.concurrency = 1
    /\ limiter.submitted = 3
    /\ limiter.tasks[1].state = "rejected"
    /\ limiter.started = <<1, 2, 3>>
    /\ Running(limiter) = {}
    /\ limiter.activeCount = 0


\* ---------------------------------------------------------------------------
\* requestQueue: new PQueue({concurrency, interval: 60 * 1000, intervalCap})
\* of claudeClient.ts, with any number of callers of analyzeText.  The queue
\* counts the jobs it starts and sets the count back when its interval
\* ends.  The minute is IntervalTicks ticks long.

MaxRequests == 4
MaxCap == 2
IntervalTicks == 2

\* the interval timer is started with the first job after a pause
initializeIntervalIfNeeded(q) ==
    IF q.ticking THEN q
    ELSE [q EXCEPT !.ticking = TRUE, !.untilTick = IntervalTicks,
                   !.endLeft = IntervalTicks]

\* one job leaves the queue if the count of the interval and the number of
\* pending jobs allow it; started tells whether it did
tryToStartAnother(q) ==
    IF q.waiting = 0 THEN [q |-> [q EXCEPT !.ticking = FALSE], started |-> FALSE]
    ELSE LET paused == ~q.ticking /\ q.endLeft >= 0
             q1 == IF q.ticking THEN q
                   ELSE IF q.endLeft < 0 THEN [q EXCEPT !.intervalCount = 0]
                   ELSE [q EXCEPT !.timeout = TRUE]
         IN  IF q1.intervalCount < q1.intervalCap /\ q1.pending < q1.concurrency
             THEN LET q2 == [q1 EXCEPT !.waiting = @ - 1,
                                       !.pending = @ + 1,
                                       !.intervalCount = @ + 1,
                                       !.ages = Append(@, 0)]
                  IN  [q |-> IF paused THEN q2 ELSE initializeIntervalIfNeeded(q2),
                       started |-> TRUE]
             ELSE [q |-> q1, started |-> FALSE]

RECURSIVE processQueue(_)
processQueue(q) ==
    LET t == tryToStartAnother(q)
    IN  IF t.started THEN processQueue(t.q) ELSE t.q

\* the interval ends: the count starts again and waiting jobs are started
onInterval(q) ==
    LET q1 == IF q.intervalCount = 0 /\ q.pending = 0 /\ q.ticking
              THEN [q EXCEPT !.ticking = FALSE] ELSE q
    IN  processQueue([q1 EXCEPT !.intervalCount = 0])

onResumeInterval(q) ==
    [initializeIntervalIfNeeded(onInterval(q)) EXCEPT !.timeout = FALSE]

InitQueue ==
    /\ IdleAnalysis
    /\ IdleLedger
    /\ IdleParser
    /\ IdleHarnesses("queue")
    /\ articles = <<>>
    /\ pc = "queue"
    /\ \E n \in 1..MaxConcurrency, cap \in 1..MaxCap :
         requestQueue = [concurrency |-> n, intervalCap |-> cap, pending |-> 0,
                         waiting |-> 0, intervalCount |-> 0, ticking |-> FALSE,
                         untilTick |-> 0, endLeft |-> 0 - 1, timeout |-> FALSE,
                         ages |-> <<>>, added |-> 0, settled |-> 0]

QueueUnchanged ==
    UNCHANGED <<pipelineVars, parserVars, dedupeVars, exportVars, scraperVars,
                stageVars, calls, limiter>>

\* analyzeText lines 166-178: requestQueue.add(...)
QueueAdd ==
    /\ pc = "queue"
    /\ requestQueue.added < MaxRequests
    /\ requestQueue' =
           tryToStartAnother([requestQueue EXCEPT !.waiting = @ + 1,
                                                  !.added = @ + 1]).q
    /\ QueueUnchanged

\* the request of a job settles: pending-- and the next job may start
QueueSettle ==
    /\ pc = "queue"
    /\ requestQueue.pending > 0
    /\ requestQueue' =
           tryToStartAnother([requestQueue EXCEPT !.pending = @ - 1,
                                                  !.settled = @ + 1]).q
    /\ QueueUnchanged

IntervalDue(q) == q.ticking /\ q.untilTick = 0
TimeoutDue(q) == q.timeout /\ q.endLeft <= 0

\* setInterval(() => onInterval(), interval)
IntervalFires ==
    /\ pc = "queue"
    /\ IntervalDue(requestQueue)
    /\ requestQueue' = onInterval([requestQueue EXCEPT !.untilTick = IntervalTicks])
    /\ QueueUnchanged

\* setTimeout(() => onResumeInterval(), delay)
TimeoutFires ==
    /\ pc = "queue"
    /\ TimeoutDue(requestQueue)
    /\ requestQueue' = onResumeInterval(requestQueue)
    /\ QueueUnchanged

RECURSIVE Older(_)
\* the starts of the last minute, one tick later
Older(ages) ==
    IF ages = <<>> THEN <<>>
    ELSE IF Head(ages) + 1 >= IntervalTicks THEN Older(Tail(ages))
    ELSE <<Head(ages) + 1>> \o Older(Tail(ages))

\* one tick passes; timers that are due fire first
QueueTick ==
    /\ pc = "queue"
    /\ ~IntervalDue(requestQueue)
    /\ ~TimeoutDue(requestQueue)
    /\ \/ requestQueue.ages # <<>>
       \/ requestQueue.waiting > 0
       \/ requestQueue.endLeft >= 0
    /\ requestQueue' =
           [requestQueue EXCEPT
               !.untilTick = IF requestQueue.ticking THEN @ - 1 ELSE @,
               !.endLeft = Max(@ - 1, 0 - 1),
               !.ages = Older(@)]
    /\ QueueUnchanged

QueueNext ==
    \/ QueueAdd
    \/ QueueSettle
    \/ IntervalFires
    \/ TimeoutFires
    \/ QueueTick

QueueSpec == InitQueue /\ [][QueueNext]_vars

\* C24: at most CONFIG.claude.maxConcurrent requests are in flight, and in
\* every window of one minute at most CONFIG.claude.requestsPerMinute
\* requests are dispatched.
C24_ConcurrencyAndRateBounded ==
    pc = "queue" =>
        /\ requestQueue.pending <= requestQueue.concurrency
        /\ Len(requestQueue.ages) <= requestQueue.intervalCap

=============================================================================
